---- MODULE Spec2Model ----
(***************************************************************************)
(* Model of runbot_merge/models/stagings_create.py: the staging core of    *)
(* the merge queue.  One branch ("master") of one project with the         *)
(* repositories Repos is modelled; the pull requests of the PR store, the  *)
(* remote refs and commit objects of every repository, the in-memory       *)
(* staging state of one attempt and the position of the worker inside      *)
(* try_staging / stage_into are the state.  What the remote answers when   *)
(* it is asked about a pull request (gh.pr, gh.commits, the outcome of a   *)
(* merge or rebase) and what it advertises on the ref-discovery endpoint   *)
(* are inputs of the step that asks.                                       *)
(***************************************************************************)
EXTENDS Integers, Sequences, FiniteSets, TLC

VARIABLES
    pc,              \* position of the worker: idle, batches, publish, visibility, raised
    prs,             \* PR store: PR id -> record of the stored fields
    active,          \* branch.active_staging_id is set
    splits,          \* branch.split_ids: sequence of splits, each a sequence of batches
    batch_limit,     \* branch.project_id.batch_limit
    refs,            \* remote refs per repository: [branch, tmp, staging] -> commit id
    objects,         \* remote commit objects: commit id -> [tree, parents]
    original_heads,  \* stage_into: original_heads[repo]
    staging_state,   \* stage_into: staging_state[repo].head
    batched_prs,     \* the batches offered to stage_into
    bi,              \* stage_batches: index of the batch being staged
    pi,              \* stage_batch: index of the PR being staged in the batch
    new_heads,       \* stage_batch: new_heads, as a sequence of <<pr, head>>
    staged,          \* stage_batches: the Batch records created so far
    stagings,        \* the Staging records created
    notifications,   \* the feedback sent: sequence of [kind, pr]
    last,            \* what the last step did (its input and its outcome)
    ri,              \* publish loop: index of the repository being published
    tries,           \* backoff in progress: number of calls of wait_for_visibility made
    attempts,        \* number of try_staging calls that went past selection
    faults,          \* number of answers of the remote that disagreed with the store
    only_stale,      \* history: every check of the published ref so far found another id
    verdicts,        \* check_visibility on each response the remote may give for the published ref
    checkpoint,      \* history: the temporary refs when the current batch began
    msg              \* the commit message being worked on: the text, the Message built
                     \* from it, and what was made of the Message since

vars == <<pc, prs, active, splits, batch_limit, refs, objects, original_heads,
          staging_state, batched_prs, bi, pi, new_heads, staged, stagings,
          notifications, last, ri, tries, attempts, faults, only_stale, verdicts,
          checkpoint, msg>>

----------------------------------------------------------------------------
(* Bounds of the model *)

\* number of try_staging calls that may go past the selection
MaxAttempts == 2
\* largest configured batch limit
MaxBatchLimit == 2
\* number of pull requests about which the remote may disagree with the store
MaxFaults == 1

----------------------------------------------------------------------------
(* Generic helpers *)

Min(S) == CHOOSE x \in S : \A y \in S : x <= y

Range(s) == {s[i] : i \in 1..Len(s)}

RECURSIVE SortedSeq(_)
\* the elements of a set of integers in ascending order
SortedSeq(S) ==
    IF S = {} THEN <<>>
    ELSE LET m == Min(S) IN <<m>> \o SortedSeq(S \ {m})

----------------------------------------------------------------------------
(* The project: repositories, branches, pull requests *)

\* branch.project_id.repo_ids.having_branch(branch), in order
RepoSeq == <<"A", "B">>
Repos == Range(RepoSeq)

\* the branch try_staging is called for
Branch == "master"
\* the branches the project manages
ManagedBranches == {"master", "saas"}

PRs == 1..4

\* the repository of a PR: companion PRs alternate between the repositories
PrRepository(p) == RepoSeq[((p - 1) % Len(RepoSeq)) + 1]

\* labels, as the characters of "<owner>:<branch>"
\* patched starts like a patch label but does not end in digits
Label ==
    [fix |-> <<"d", "e", "v", ":", "f", "i", "x", "-", "1", "2", "3", "4">>,
     patch |-> <<"d", "e", "v", ":", "p", "a", "t", "c", "h", "-", "1">>,
     patched |-> <<"d", "e", "v", ":", "p", "a", "t", "c", "h", "-", "1", "a">>]

\* the label of a PR: PRs 2 and 3 are companions, the others carry a
\* patch-<n> label
PrLabel(p) == IF p \in {2, 3} THEN Label.fix ELSE Label.patch

\* a grouping key which takes the label of every PR as it is
NeverPatchLabel(l) == FALSE

\* pr.label SIMILAR TO '%:patch-[[:digit:]]+' : the label ends in ":patch-"
\* and one digit or more
IsPatchLabel(l) ==
    \E i \in 1..Len(l) :
        /\ i + 7 <= Len(l)
        /\ SubSeq(l, i, i + 6) = <<":", "p", "a", "t", "c", "h", "-">>
        /\ \A j \in (i + 7)..Len(l) : l[j] \in {"0", "1", "2", "3", "4", "5", "6", "7", "8", "9"}

Methods == {"merge", "rebase-merge", "rebase-ff", "squash"}
None == "none"

\* the key '' of a commits-map
EmptyKey == 0
\* the value of a ref which does not exist
NoCommit == 0

\* commit ids of the commits of PR p: CachedHead is the head the PR store
\* knows at first, OtherHead a head pushed since
PrCommit(p, i) == 1000 * p + i
CachedHead(p) == 1000 * p + 999
OtherHead(h) == IF h % 1000 = 999 THEN h - 1 ELSE h + 1

\* the canonical message, and another one
OtherMessage(m) == IF m = "message" THEN "edited" ELSE "message"


----------------------------------------------------------------------------
(* Ready-set selection *)

\* the PRs of the query: on the branch, not in a terminal state
Candidates(store) ==
    {p \in PRs : /\ store[p].exists
                  /\ store[p].target = Branch
                  /\ store[p].state \notin {"merged", "closed"}}

\* GROUP BY pr.target, CASE WHEN label is patch-<n> THEN pr.id ELSE pr.label
GroupOf(store, p) ==
    IF IsPatchLabel(store[p].label) THEN {p}
    ELSE {q \in Candidates(store) :
            /\ ~IsPatchLabel(store[q].label)
            /\ store[q].label = store[p].label}

\* HAVING bool_or(pr.state = 'ready') or bool_or(pr.priority = 0)
Having(store, g) ==
    \E p \in g : store[p].state = "ready" \/ store[p].priority = 0

GroupPriority(store, g) == Min({store[p].priority : p \in g})

RECURSIVE OrderRows(_, _)
\* ORDER BY min(pr.priority), min(pr.id)
OrderRows(store, groups) ==
    IF groups = {} THEN <<>>
    ELSE LET first == CHOOSE g \in groups : \A h \in groups :
                 \/ GroupPriority(store, g) < GroupPriority(store, h)
                 \/ /\ GroupPriority(store, g) = GroupPriority(store, h)
                    /\ Min(g) <= Min(h)
         IN <<[priority |-> GroupPriority(store, first), prs |-> SortedSeq(first)]>>
            \o OrderRows(store, groups \ {first})

\* ready_prs(for_branch): rows (priority, PRs)
ready_prs(store) ==
    OrderRows(store, {g \in {GroupOf(store, p) : p \in Candidates(store)} :
                        Having(store, g)})

\* the rows without any blocked PR
Rows(store) ==
    SelectSeq(ready_prs(store), LAMBDA r : \A i \in 1..Len(r.prs) : ~store[r.prs[i]].blocked)

\* a selection which takes every row, whatever its priority
TakeEveryRow(rows, priority) == [i \in 1..Len(rows) |-> rows[i].prs]

RECURSIVE TakeWhilePriority(_, _)
\* [pr_ids for _, pr_ids in takewhile(lambda r: r[0] == priority, rows)]
TakeWhilePriority(rows, priority) ==
    IF rows = <<>> \/ rows[1].priority # priority THEN <<>>
    ELSE <<rows[1].prs>> \o TakeWhilePriority(Tail(rows), priority)

\* a selection which never looks at the splits
SelectFresh(rows, split_ids) == TakeWhilePriority(rows, rows[1].priority)

\* try_staging: the batches offered to stage_into
SelectBatches(rows, split_ids) ==
    LET priority == rows[1].priority IN
    IF priority = 0 \/ priority = 1 THEN TakeWhilePriority(rows, priority)
    ELSE IF split_ids # <<>> THEN split_ids[1]
    ELSE TakeWhilePriority(rows, priority)

\* try_staging: the split records left
SplitsAfter(rows, split_ids) ==
    LET priority == rows[1].priority IN
    IF priority = 0 \/ priority = 1 THEN split_ids
    ELSE IF split_ids # <<>> THEN Tail(split_ids)
    ELSE split_ids

----------------------------------------------------------------------------
(* The remote host: commit objects and refs of one repository *)

\* the id the remote gives the next commit object
NewId(objs) == Len(objs) + 1

\* gh('post', 'git/commits', json={tree, parents}): the objects with the
\* new commit added
CreateCommit(objs, tree, parents) ==
    Append(objs, [tree |-> tree, parents |-> parents])

\* gh.merge(sha, dest, message): a merge commit of sha into the head of
\* dest, with a tree of its own; dest is moved to it
GhMerge(objs, dest_head, sha) ==
    CreateCommit(objs, NewId(objs), <<dest_head, sha>>)

\* gh.rebase(pr, dest, commits): the first k commits of shas replayed on
\* top of prev, one new commit each, the first on prev and every other one
\* on the one before; mapping[i] is the commit shas[i] became
GhRebase(objs, prev, shas, k) ==
    LET base == Len(objs)
        n == IF k < Len(shas) THEN k ELSE Len(shas)
    IN [objs |-> objs \o [i \in 1..n |->
                    [tree |-> base + i,
                     parents |-> <<IF i = 1 THEN prev ELSE base + i - 1>>]],
        tip |-> IF n = 0 THEN prev ELSE base + n,
        mapping |-> [i \in 1..n |-> base + i]]

----------------------------------------------------------------------------
(* What the remote reports about a pull request *)

\* commit counts the remote may report: one, a few, and both sides of the
\* two limits of stage
RebaseLimit == 50
MergeLimit == 250
CommitCounts == {1, 2, RebaseLimit, RebaseLimit + 1, MergeLimit, MergeLimit + 1}

\* a commit of the base branch which is the parent of a PR commit
ExternalParent(k) == 900 + k

\* the state of a PR that agrees with the PR store, with n commits
CleanLive(n) ==
    [commits   |-> n,
     head_same |-> TRUE,         \* the head is the stored head
     base      |-> Branch,       \* prdict['base']['ref']
     msg_same  |-> TRUE,         \* utils.make_message(prdict) is the stored message
     emails    |-> TRUE,         \* every commit has author and committer email
     parents   |-> "linear",     \* parents of the head: linear, merged_base, two_external
     fail      |-> "no"]         \* no, conflict, partial (conflict after part
                                 \* of the work), remote_error

\* one thing differing from CleanLive
Deviations(l) ==
    {[l EXCEPT !.head_same = FALSE], [l EXCEPT !.base = "saas"],
     [l EXCEPT !.base = "unmanaged"], [l EXCEPT !.msg_same = FALSE],
     [l EXCEPT !.emails = FALSE], [l EXCEPT !.parents = "two_external"],
     [l EXCEPT !.fail = "conflict"], [l EXCEPT !.fail = "partial"],
     [l EXCEPT !.fail = "remote_error"]}
    \cup (IF l.commits > 1 THEN {[l EXCEPT !.parents = "merged_base"]} ELSE {})

\* the state of the remote which agrees with the PR store: one commit for
\* a PR flagged squash, two otherwise
AgreedLive(pr) == CleanLive(IF pr.squash THEN 1 ELSE 2)

\* the answers of the remote the model draws from for a PR: the one that
\* agrees with the store, the ones with another commit count, the ones
\* with one thing differing, and the ones with another head and a missing
\* email, a base outside the project or a conflict
LiveStates(pr) ==
    LET moved == [AgreedLive(pr) EXCEPT !.head_same = FALSE]
    IN {[AgreedLive(pr) EXCEPT !.commits = n] : n \in CommitCounts}
       \cup Deviations(AgreedLive(pr))
       \cup {[moved EXCEPT !.emails = FALSE], [moved EXCEPT !.base = "unmanaged"],
             [moved EXCEPT !.fail = "conflict"]}

\* gh.commits(pr.number): the shas of the commits, oldest first
LiveCommits(pr, live) ==
    [i \in 1..live.commits |->
        IF i < live.commits THEN PrCommit(pr.number, i)
        ELSE IF live.head_same THEN pr.head ELSE OtherHead(pr.head)]

\* pr_head['parents']
HeadParents(pr, live) ==
    LET inner == IF live.commits > 1 THEN PrCommit(pr.number, live.commits - 1)
                 ELSE ExternalParent(0)
    IN CASE live.parents = "linear" -> {inner}
         [] live.parents = "merged_base" -> {inner, ExternalParent(1)}
         [] live.parents = "two_external" -> {ExternalParent(1), ExternalParent(2)}

----------------------------------------------------------------------------
(* stage: pre-flight checks, consistency check, strategy *)

\* a choice of the method which knows no default
ConfiguredMethod(pr, live) == pr.merge_method

\* method = pr.merge_method or ('rebase-ff' if commits == 1 else None)
StageMethod(pr, live) ==
    IF pr.merge_method # None THEN pr.merge_method
    ELSE IF live.commits = 1 THEN "rebase-ff" ELSE None

\* method.startswith('rebase')
IsRebase(method) == method \in {"rebase-ff", "rebase-merge"}

\* the checks of stage before the consistency check: "ok", or the
\* exception raised
Preflight(pr, live) ==
    LET method == StageMethod(pr, live) IN
    IF live.commits > RebaseLimit /\ method = None THEN "crash"
    ELSE IF live.commits > RebaseLimit /\ IsRebase(method) THEN "unmergeable"
    ELSE IF live.commits > MergeLimit THEN "unmergeable"
    ELSE IF ~live.emails THEN "unmergeable"
    ELSE "ok"

\* pr.squash != commits == 1, a chained comparison:
\* (pr.squash != commits) and (commits == 1), with True == 1 and False == 0
SquashDiffers(squash, commits) ==
    /\ (IF squash THEN 1 ELSE 0) # commits
    /\ commits = 1

\* the message the remote state gives
LiveMessage(pr, live) ==
    IF live.msg_same THEN pr.message ELSE OtherMessage(pr.message)

\* the keys of `invalid`
Invalid(pr, live) ==
    LET shas == LiveCommits(pr, live) IN
    (IF pr.head # shas[Len(shas)] THEN {"head"} ELSE {})
    \cup (IF pr.target # live.base THEN {"target"} ELSE {})
    \cup (IF SquashDiffers(pr.squash, live.commits) THEN {"squash"} ELSE {})
    \cup (IF pr.message # LiveMessage(pr, live) THEN {"message"} ELSE {})

\* a write of the invalid fields which leaves the state of the PR alone
WriteInvalidNoState(pr, live) ==
    LET shas == LiveCommits(pr, live)
    IN [pr EXCEPT
          !.head = shas[Len(shas)],
          !.target = live.base,
          !.squash = IF SquashDiffers(pr.squash, live.commits) THEN live.commits = 1 ELSE @,
          !.message = LiveMessage(pr, live)]

\* pr.write({**invalid, 'state': 'opened', 'head': pr_head})
WriteInvalid(pr, live) ==
    LET shas == LiveCommits(pr, live)
        invalid == Invalid(pr, live)
    IN [pr EXCEPT
          !.head = shas[Len(shas)],
          !.target = IF "target" \in invalid THEN live.base ELSE @,
          !.squash = IF "squash" \in invalid THEN live.commits = 1 ELSE @,
          !.message = IF "message" \in invalid THEN LiveMessage(pr, live) ELSE @,
          !.state = "opened"]

\* the result of a strategy which raised: nothing staged
Raised(kind, objs, tmp) ==
    [kind |-> kind, head |-> NoCommit, tmp |-> tmp, objs |-> objs, commits_map |-> <<>>]

\* the position of sha in shas
IndexOf(shas, sha) == CHOOSE i \in 1..Len(shas) : shas[i] = sha

\* how many commits a rebase replays before it fails
Replayed(live) ==
    IF live.fail = "conflict" THEN 0 ELSE live.commits - 1

\* the exception a failing remote call raises: github.MergeError, or
\* another one
FailKind(live) == IF live.fail = "remote_error" THEN "crash" ELSE "merge_error"

\* stage_squash
stage_squash(pr, live, objs, tmp) ==
    LET shas == LiveCommits(pr, live)
        merged == GhMerge(objs, tmp, pr.head)
        temp == NewId(objs)
        head == NewId(merged)
        done == CreateCommit(merged, merged[temp].tree, <<tmp>>)
    IN IF live.fail \in {"conflict", "partial"} THEN Raised("merge_error", objs, tmp)
       ELSE IF live.fail = "remote_error" THEN Raised("crash", merged, temp)
       ELSE [kind |-> "staged", head |-> head, tmp |-> head, objs |-> done,
             commits_map |-> [k \in {EmptyKey} \cup Range(shas) |-> head]]

\* stage_rebase_ff
stage_rebase_ff(pr, live, objs, tmp) ==
    LET shas == LiveCommits(pr, live)
        part == GhRebase(objs, tmp, shas, Replayed(live))
        full == GhRebase(objs, tmp, shas, Len(shas))
    IN IF live.fail # "no" THEN Raised(FailKind(live), part.objs, part.tip)
       ELSE [kind |-> "staged", head |-> full.tip, tmp |-> full.tip, objs |-> full.objs,
             commits_map |-> [k \in {EmptyKey} \cup Range(shas) |->
                 IF k = EmptyKey THEN full.tip ELSE full.mapping[IndexOf(shas, k)]]]

\* stage_rebase_merge
stage_rebase_merge(pr, live, objs, tmp) ==
    LET shas == LiveCommits(pr, live)
        part == GhRebase(objs, tmp, shas, Replayed(live))
        full == GhRebase(objs, tmp, shas, Len(shas))
        merge_head == NewId(full.objs)
    IN IF live.fail # "no" THEN Raised(FailKind(live), part.objs, part.tip)
       ELSE [kind |-> "staged", head |-> merge_head, tmp |-> merge_head,
             objs |-> GhMerge(full.objs, tmp, full.tip),
             commits_map |-> [k \in {EmptyKey} \cup Range(shas) |->
                 IF k = EmptyKey THEN merge_head ELSE full.mapping[IndexOf(shas, k)]]]

\* a merge which maps the commits of the PR and nothing else
stage_merge_unmapped(pr, live, objs, tmp) ==
    [kind |-> "staged", head |-> NewId(objs), tmp |-> NewId(objs),
     objs |-> GhMerge(objs, tmp, pr.head),
     commits_map |-> [k \in Range(LiveCommits(pr, live)) |-> k]]

\* stage_merge
stage_merge(pr, live, objs, tmp) ==
    LET shas == LiveCommits(pr, live)
        head_parents == HeadParents(pr, live)
        merge == IF Cardinality(head_parents) > 1 THEN head_parents \ Range(shas) ELSE {}
        external_parents == Cardinality(merge)
        merged == GhMerge(objs, tmp, pr.head)
        temp == NewId(objs)
        copy == NewId(merged)
        base_commit == CHOOSE c \in merge : TRUE
    IN IF external_parents > 1 THEN Raised("unmergeable_str", objs, tmp)
       ELSE IF live.fail \in {"conflict", "partial"} THEN Raised("merge_error", objs, tmp)
       ELSE IF external_parents = 1 THEN
           IF live.fail = "remote_error" THEN Raised("crash", merged, temp)
           ELSE [kind |-> "staged", head |-> copy, tmp |-> copy,
                 objs |-> CreateCommit(merged, merged[temp].tree,
                             <<tmp>> \o SortedSeq(head_parents \ {base_commit})),
                 commits_map |-> [k \in {EmptyKey} \cup Range(shas) |->
                     IF k = EmptyKey \/ k = pr.head THEN copy ELSE k]]
       ELSE IF live.fail = "remote_error" THEN Raised("crash", objs, tmp)
       ELSE [kind |-> "staged", head |-> temp, tmp |-> temp, objs |-> merged,
             commits_map |-> [k \in {EmptyKey} \cup Range(shas) |->
                 IF k = EmptyKey THEN temp ELSE k]]

\* a stage which merges whatever the method is
AlwaysMerge(method, pr, live, objs, tmp) == stage_merge(pr, live, objs, tmp)

\* match method: the strategy; no case for None, and fn is unbound
Strategy(method, pr, live, objs, tmp) ==
    CASE method = "merge" -> stage_merge(pr, live, objs, tmp)
      [] method = "rebase-merge" -> stage_rebase_merge(pr, live, objs, tmp)
      [] method = "rebase-ff" -> stage_rebase_ff(pr, live, objs, tmp)
      [] method = "squash" -> stage_squash(pr, live, objs, tmp)
      [] OTHER -> Raised("crash", objs, tmp)

\* stage(pr, gh, target, related_prs): what it returns or raises (kind),
\* the PR record, the objects and the temporary ref it leaves
stage(pr, live, objs, tmp) ==
    LET method == StageMethod(pr, live)
        pre == Preflight(pr, live)
        out == Strategy(method, pr, live, objs, tmp)
        base == [kind |-> pre, method |-> method, head |-> NoCommit, tmp |-> tmp,
                 objs |-> objs, pr |-> pr]
    IN IF pre # "ok" THEN base
       ELSE IF pr.target # live.base /\ live.base \notin ManagedBranches
            THEN [base EXCEPT !.kind = "unmergeable", !.pr = [pr EXCEPT !.exists = FALSE]]
       ELSE IF Invalid(pr, live) # {}
            THEN [base EXCEPT !.kind = "mismatch", !.pr = WriteInvalid(pr, live)]
       ELSE [kind |-> out.kind, method |-> method, head |-> out.head, tmp |-> out.tmp,
             objs |-> out.objs,
             pr |-> IF out.kind = "staged"
                    THEN [pr EXCEPT !.commits_map = out.commits_map] ELSE pr]

----------------------------------------------------------------------------
(* The state after construction *)

\* the pools of ready PRs the model starts from; the other PRs are opened
Pools == {{1}, {2, 3}, PRs}

\* the PRs of a single commit, which the store flags squash
SingleCommit == {2, 3}

\* a PR of the store
NewPr(p, method, squash, state) ==
    [number       |-> p,
     repository   |-> PrRepository(p),
     label        |-> PrLabel(p),
     priority     |-> 2,
     state        |-> state,
     blocked      |-> FALSE,
     merge_method |-> method,
     squash       |-> squash,
     head         |-> CachedHead(p),
     target       |-> Branch,
     message      |-> "message",
     commits_map  |-> <<>>,
     exists       |-> TRUE]

\* no commit message is being worked on
NoMessage == [op |-> "none"]

\* the temporary refs of all repositories
TmpRefs(rf) == [r \in Repos |-> rf[r].tmp]

\* no staging was attempted yet: the refs and commits of the repositories
\* as the remote has them, and nothing in the working state of stage_into
NothingStaged ==
    /\ objects = [i \in 1..Len(RepoSeq) |-> [tree |-> i, parents |-> <<>>]]
    /\ refs = [r \in Repos |->
                 [branch |-> IndexOf(RepoSeq, r), tmp |-> NoCommit, staging |-> NoCommit]]
    /\ original_heads = [r \in Repos |-> NoCommit]
    /\ staging_state = [r \in Repos |-> NoCommit]
    /\ batched_prs = <<>>
    /\ bi = 1
    /\ pi = 1
    /\ new_heads = <<>>
    /\ staged = <<>>
    /\ stagings = <<>>
    /\ notifications = <<>>
    /\ last = [op |-> "init"]
    /\ ri = 1
    /\ tries = 0
    /\ attempts = 0
    /\ faults = 0
    /\ only_stale = FALSE
    /\ verdicts = <<>>
    /\ checkpoint = [r \in Repos |-> NoCommit]

Init ==
    /\ pc = "idle"
    /\ \E method \in Methods \cup {None}, pool \in Pools :
           prs = [p \in PRs |->
                    NewPr(p, method, p \in SingleCommit,
                          IF p \in pool THEN "ready" ELSE "opened")]
    /\ active \in BOOLEAN
    /\ splits = <<>>
    /\ batch_limit \in 1..MaxBatchLimit
    /\ NothingStaged
    /\ msg = NoMessage

----------------------------------------------------------------------------
(* try_staging *)

\* a try_staging which does not look at the active staging
NoActiveStaging(a) == FALSE

\* if branch.active_staging_id: return None
ActiveStaging(a) == a

\* staging_setup: every repository's tmp.<branch> is set to the branch head
SetupRefs(rf) == [r \in Repos |-> [rf[r] EXCEPT !.tmp = rf[r].branch]]

\* try_staging on a branch with an active staging: returns None
TryStagingActive ==
    /\ pc = "idle"
    /\ ActiveStaging(active)
    /\ last' = [op |-> "try_staging", result |-> "active"]
    /\ UNCHANGED msg
    /\ UNCHANGED <<pc, prs, active, splits, batch_limit, refs, objects, original_heads,
                   staging_state, batched_prs, bi, pi, new_heads, staged, stagings,
                   notifications, ri, tries, attempts, faults, only_stale, verdicts, checkpoint>>

\* try_staging with no row to stage: returns None
TryStagingNothing ==
    /\ pc = "idle"
    /\ ~ActiveStaging(active)
    /\ Rows(prs) = <<>>
    /\ last' = [op |-> "try_staging", result |-> "nothing"]
    /\ UNCHANGED msg
    /\ UNCHANGED <<pc, prs, active, splits, batch_limit, refs, objects, original_heads,
                   staging_state, batched_prs, bi, pi, new_heads, staged, stagings,
                   notifications, ri, tries, attempts, faults, only_stale, verdicts, checkpoint>>

\* try_staging selects the batches and calls stage_into, which sets the
\* staging up (staging_setup)
TryStagingBegin ==
    /\ pc = "idle"
    /\ ~ActiveStaging(active)
    /\ Rows(prs) # <<>>
    /\ attempts < MaxAttempts
    /\ attempts' = attempts + 1
    /\ batched_prs' = SelectBatches(Rows(prs), splits)
    /\ splits' = SplitsAfter(Rows(prs), splits)
    /\ refs' = SetupRefs(refs)
    /\ original_heads' = [r \in Repos |-> refs[r].branch]
    /\ staging_state' = [r \in Repos |-> refs[r].branch]
    /\ checkpoint' = TmpRefs(refs')
    /\ staged' = <<>>
    /\ bi' = 1
    /\ pi' = 1
    /\ new_heads' = <<>>
    /\ pc' = "batches"
    /\ last' = [op |-> "staging_setup"]
    /\ UNCHANGED msg
    /\ UNCHANGED <<prs, active, batch_limit, objects, stagings, notifications, ri, tries,
                   faults, only_stale, verdicts>>

----------------------------------------------------------------------------
(* stage_batches and stage_batch *)

\* the batch and the PR being staged
CurBatch == batched_prs[bi]
CurPr == CurBatch[pi]
CurRepo == prs[CurPr].repository

\* a loop which goes on to the end of the batches
InBatchLoopToTheEnd ==
    /\ pc = "batches"
    /\ bi <= Len(batched_prs)

\* for batch in batched_prs: if len(staged) >= batch_limit: break
InBatchLoop ==
    /\ pc = "batches"
    /\ bi <= Len(batched_prs)
    /\ Len(staged) < batch_limit

\* the answers of the remote about the current PR which the bound on the
\* disagreeing answers still allows
Answers ==
    {live \in LiveStates(prs[CurPr]) :
        live = AgreedLive(prs[CurPr]) \/ faults < MaxFaults}

\* the count of disagreeing answers after live
Faults(live) == IF live = AgreedLive(prs[CurPr]) THEN faults ELSE faults + 1

\* stage of the current PR, given what the remote reports
StageResult(live) == stage(prs[CurPr], live, objects, refs[CurRepo].tmp)

\* an except clause which resets the head which failed and nothing else
RollbackFailedOnly(rf, repo, original_head, heads, state) ==
    [rf EXCEPT ![repo].tmp = original_head]

\* the except clause of stage_batch: the head which failed is reset to what
\* it was before this PR, then the ref of every PR of new_heads is reset to
\* the head of the staging state
Rollback(rf, repo, original_head, heads, state) ==
    LET reset == [rf EXCEPT ![repo].tmp = original_head]
    IN [r \in Repos |->
          IF \E i \in 1..Len(heads) : PrRepository(heads[i][1]) = r
          THEN [reset[r] EXCEPT !.tmp = state[r]]
          ELSE reset[r]]

\* the refs after stage raised on the current PR, leaving the temporary ref
\* of its repository at res.tmp
RolledBack(res) ==
    Rollback([refs EXCEPT ![CurRepo].tmp = res.tmp], CurRepo, refs[CurRepo].tmp,
             new_heads, staging_state)

\* an update which stops after the first of the new heads
UpdateMetaFirst(state, heads) ==
    [state EXCEPT ![PrRepository(heads[1][1])] = heads[1][2]]

RECURSIVE UpdateMeta(_, _)
\* for pr, head in new_heads.items(): staging[pr.repository].head = head
UpdateMeta(state, heads) ==
    IF heads = <<>> THEN state
    ELSE UpdateMeta([state EXCEPT ![PrRepository(heads[1][1])] = heads[1][2]], Tail(heads))

\* what the last step was: a call of stage.  raised: an exception left
\* stage_batches
StageRecord(live, res, raised) ==
    [op |-> "stage", pr |-> CurPr, index |-> pi, live |-> live, kind |-> res.kind,
     method |-> res.method, head |-> res.head, raised |-> raised]

\* the next batch of the loop of stage_batches
NextBatch ==
    /\ bi' = bi + 1
    /\ pi' = 1
    /\ new_heads' = <<>>
    /\ checkpoint' = TmpRefs(refs')

\* a handler which marks the PR whatever was staged before
MarksErrorAlways(batches, kind) == TRUE

\* if not staged or isinstance(e, exceptions.Unmergeable)
MarksError(batches, kind) == batches = <<>> \/ kind = "unmergeable"

\* the PR store after stage_batch and the handler of stage_batches: the
\* PR as stage left it, in state error where the handler marks it
StoreAfter(res) ==
    [prs EXCEPT ![CurPr] =
        IF res.kind \in {"merge_error", "unmergeable"} /\ res.pr.exists
           /\ MarksError(staged, res.kind)
        THEN [res.pr EXCEPT !.state = "error"]
        ELSE res.pr]

\* the feedback stage_batch and the handler of stage_batches send.
\* missing_error: working on an unlinked PR raises
Feedback(res, missing_error) ==
    IF res.kind = "mismatch" THEN <<[kind |-> "staging.mismatch", pr |-> CurPr]>>
    ELSE IF res.kind = "merge_error" /\ MarksError(staged, res.kind)
         THEN <<[kind |-> "merge.failed", pr |-> CurPr]>>
    ELSE IF res.kind = "unmergeable" /\ (res.pr.exists \/ ~missing_error)
         THEN <<[kind |-> "merge.failed", pr |-> CurPr]>>
    ELSE <<>>

\* does an exception leave stage_batches: one which is no MergeError, or one
\* of the handler itself, which reads e.args[0] as the PR: Unmergeable
\* built with the message alone, or with an unlinked PR
LeavesStageBatches(res, missing_error) ==
    \/ res.kind \in {"crash", "unmergeable_str"}
    \/ res.kind = "unmergeable" /\ ~res.pr.exists /\ missing_error

\* one PR of the current batch goes through stage_batch.
\* stage returns: the PR is staged, and after the last PR of the batch the
\* heads of the staging state are updated and the Batch is created.
\* stage raises: the refs are rolled back; Mismatch is notified and
\* stage_batch returns an empty Batch; a MergeError reaches the handler of
\* stage_batches; anything else leaves try_staging.
StagePr ==
    /\ InBatchLoop
    /\ \E live \in Answers, missing_error \in BOOLEAN : \E res \in {StageResult(live)} :
         LET raised == LeavesStageBatches(res, missing_error)
         IN /\ missing_error => (res.kind = "unmergeable" /\ ~res.pr.exists)
            /\ last' = StageRecord(live, res, raised)
            /\ faults' = Faults(live)
            /\ prs' = StoreAfter(res)
            /\ notifications' = notifications \o Feedback(res, missing_error)
            /\ IF res.kind = "staged"
               THEN /\ objects' = res.objs
                    /\ refs' = [refs EXCEPT ![CurRepo].tmp = res.tmp]
                    /\ pc' = pc
                    /\ IF pi < Len(CurBatch)
                       THEN /\ pi' = pi + 1
                            /\ new_heads' = Append(new_heads, <<CurPr, res.head>>)
                            /\ UNCHANGED <<bi, staging_state, staged, checkpoint>>
                       ELSE /\ staging_state' =
                                  UpdateMeta(staging_state,
                                             Append(new_heads, <<CurPr, res.head>>))
                            /\ staged' = Append(staged, [target |-> Branch, prs |-> CurBatch])
                            /\ NextBatch
               ELSE /\ objects' = objects
                    /\ refs' = RolledBack(res)
                    /\ UNCHANGED <<staging_state, staged>>
                    /\ IF raised
                       THEN /\ pc' = "raised"
                            /\ UNCHANGED <<bi, pi, new_heads, checkpoint>>
                       ELSE /\ pc' = pc
                            /\ NextBatch
    /\ UNCHANGED msg
    /\ UNCHANGED <<active, splits, batch_limit, original_heads, batched_prs,
                   stagings, ri, tries, attempts, only_stale, verdicts>>

----------------------------------------------------------------------------
(* The ref advertisement of the smart HTTP protocol *)

\* characters are one-character strings; NUL and LF stand for \0 and \n
NUL == "NUL"
LF == "LF"

HexDigits == <<"0", "1", "2", "3", "4", "5", "6", "7", "8", "9",
               "a", "b", "c", "d", "e", "f">>
UpperHexDigits == <<"0", "1", "2", "3", "4", "5", "6", "7", "8", "9",
                    "A", "B", "C", "D", "E", "F">>

\* [\da-f]
IsHexChar(c) == \E d \in 1..16 : HexDigits[d] = c

\* the length of a commit id in a ref line
ShaLen == 40

\* 16^e
RECURSIVE Pow16(_)
Pow16(e) == IF e = 0 THEN 1 ELSE 16 * Pow16(e - 1)

\* n, below 16^4, in hexadecimal on width characters
Hex(n, width) ==
    [i \in 1..width |->
        IF width - i >= 4 THEN "0" ELSE HexDigits[((n \div Pow16(width - i)) % 16) + 1]]

\* the id of a commit as the remote advertises it
Sha(commit) == Hex(commit, ShaLen)

\* ZERO_REF = b'0'*40
ZERO_REF == [i \in 1..ShaLen |-> "0"]

\* a pkt-line: four hexadecimal digits of length, then the data
PktLine(data) == Hex(Len(data) + 4, 4) \o data
FlushPkt == <<"0", "0", "0", "0">>

\* can int(chars, 16) parse the characters
IsHexNumber(chars) ==
    /\ chars # <<>>
    /\ \A i \in 1..Len(chars) :
          \E d \in 1..16 : HexDigits[d] = chars[i] \/ UpperHexDigits[d] = chars[i]

RECURSIVE HexValue(_)
\* int(chars, 16)
HexValue(chars) ==
    IF chars = <<>> THEN 0
    ELSE LET c == chars[Len(chars)]
             d == CHOOSE e \in 1..16 : HexDigits[e] = c \/ UpperHexDigits[e] = c
         IN 16 * HexValue(SubSeq(chars, 1, Len(chars) - 1)) + (d - 1)

\* read(n) at position pos of the stream
Read(stream, pos, n) ==
    SubSeq(stream, pos, IF pos + n - 1 > Len(stream) THEN Len(stream) ELSE pos + n - 1)

\* read_line: a line of data, a flush (None), or the exception of int();
\* next is the position after it.  A length of 1 to 3 is not modelled
\* (read of a negative count) and counts as an exception.
read_line(stream, pos) ==
    LET prefix == Read(stream, pos, 4)
        length == HexValue(prefix)
    IN IF ~IsHexNumber(prefix) THEN [kind |-> "error", data |-> <<>>, next |-> pos]
       ELSE IF length = 0 THEN [kind |-> "flush", data |-> <<>>, next |-> pos + Len(prefix)]
       ELSE IF length < 4 THEN [kind |-> "error", data |-> <<>>, next |-> pos]
       ELSE [kind |-> "line", data |-> Read(stream, pos + 4, length - 4),
             next |-> pos + length]

RECURSIVE rstrip(_)
\* bytes.rstrip(): without the whitespace at the end
rstrip(chars) ==
    IF chars # <<>> /\ chars[Len(chars)] \in {" ", LF}
    THEN rstrip(SubSeq(chars, 1, Len(chars) - 1))
    ELSE chars

ServiceHeader ==
    <<"#", " ", "s", "e", "r", "v", "i", "c", "e", "=", "g", "i", "t", "-",
      "u", "p", "l", "o", "a", "d", "-", "p", "a", "c", "k">>

\* is prefix the start of chars
StartsWith(chars, prefix) ==
    /\ Len(chars) >= Len(prefix)
    /\ SubSeq(chars, 1, Len(prefix)) = prefix

\* the length of the longest run of characters not in stop, from position i
RunLength(chars, i, stop) ==
    Min({j \in i..(Len(chars) + 1) : j > Len(chars) \/ chars[j] \in stop}) - i

\* refline.fullmatch(line) for ([\da-f]{40}) ([^\0\n]+)(\0.*)?\n? : the
\* groups 1 and 2 of the match, or no match
refline(line) ==
    LET name_len == RunLength(line, ShaLen + 2, {NUL, LF})
        after == ShaLen + 2 + name_len
        caps_len == IF after <= Len(line) /\ line[after] = NUL
                    THEN 1 + RunLength(line, after + 1, {LF}) ELSE 0
        rest == SubSeq(line, after + caps_len, Len(line))
    IN IF /\ Len(line) >= ShaLen + 2
          /\ \A i \in 1..ShaLen : IsHexChar(line[i])
          /\ line[ShaLen + 1] = " "
          /\ name_len >= 1
          /\ rest \in {<<>>, <<LF>>}
       THEN [match |-> TRUE, head |-> SubSeq(line, 1, ShaLen),
             ref |-> SubSeq(line, ShaLen + 2, ShaLen + 1 + name_len)]
       ELSE [match |-> FALSE, head |-> <<>>, ref |-> <<>>]

RECURSIVE RefLines(_, _)
\* the loop of parse_refs_smart from position pos: the pairs it yields, and
\* whether it then raises instead of ending
RefLines(stream, pos) ==
    LET line == read_line(stream, pos)
        m == refline(line.data)
        rest == RefLines(stream, line.next)
    IN IF line.kind = "error" THEN [refs |-> <<>>, raises |-> TRUE]
       ELSE IF line.kind = "flush" THEN [refs |-> <<>>, raises |-> FALSE]
       ELSE IF StartsWith(line.data, ZERO_REF) THEN [refs |-> <<>>, raises |-> FALSE]
       ELSE IF ~m.match THEN [refs |-> <<>>, raises |-> TRUE]
       ELSE [rest EXCEPT !.refs = <<[head |-> m.head, ref |-> m.ref]>> \o @]

\* a parser which does not look at what the announcement says
parse_refs_unannounced(stream) ==
    LET header == read_line(stream, 1)
        flush == read_line(stream, header.next)
    IN IF header.kind # "line" \/ flush.kind # "flush"
       THEN [refs |-> <<>>, raises |-> TRUE]
       ELSE RefLines(stream, flush.next)

\* parse_refs_smart(read): the generator, as the pairs it yields before it
\* ends or raises
parse_refs_smart(stream) ==
    LET header == read_line(stream, 1)
        flush == read_line(stream, header.next)
    IN IF \/ header.kind # "line"
          \/ header.data = <<>>
          \/ rstrip(header.data) # ServiceHeader
       THEN [refs |-> <<>>, raises |-> TRUE]
       ELSE IF flush.kind # "flush" THEN [refs |-> <<>>, raises |-> TRUE]
       ELSE RefLines(stream, flush.next)

RefsHeads == <<"r", "e", "f", "s", "/", "h", "e", "a", "d", "s", "/">>

\* a check which reads the refs of any response, OK or not
check_visibility_unchecked(resp, branch_name, expected_head) ==
    LET parsed == parse_refs_smart(resp.body)
        hits == {i \in 1..Len(parsed.refs) : parsed.refs[i].ref = RefsHeads \o branch_name}
    IN IF hits # {} THEN
           IF parsed.refs[Min(hits)].head = expected_head THEN "true" ELSE "false"
       ELSE IF parsed.raises THEN "error"
       ELSE "false"

\* check_visibility(repo, branch_name, expected_head, token) on a response:
\* "true", "false", or "error" when parse_refs_smart raises
check_visibility(resp, branch_name, expected_head) ==
    LET parsed == parse_refs_smart(resp.body)
        hits == {i \in 1..Len(parsed.refs) : parsed.refs[i].ref = RefsHeads \o branch_name}
    IN IF ~resp.ok THEN "false"
       ELSE IF hits # {} THEN
           IF parsed.refs[Min(hits)].head = expected_head THEN "true" ELSE "false"
       ELSE IF parsed.raises THEN "error"
       ELSE "false"

----------------------------------------------------------------------------
(* What the ref-discovery endpoint may answer *)

BranchName == <<"m", "a", "s", "t", "e", "r">>
\* refname = 'staging.{}'.format(branch.name)
StagingRefName == <<"s", "t", "a", "g", "i", "n", "g", ".">> \o BranchName

Capabilities == <<NUL, "m", "u", "l", "t", "i", "_", "a", "c", "k">>

\* "<id> <name>[\0<capabilities>]\n"
AdvertisedRef(commit, name, caps) == Sha(commit) \o <<" ">> \o name \o caps \o <<LF>>

\* a line which is no ref line: the id is one character short
BrokenRef(commit, name) == Tail(Sha(commit)) \o <<" ">> \o name \o <<LF>>

\* the line of an advertisement without refs
NoRefsLine ==
    ZERO_REF \o <<" ", "c", "a", "p", "a", "b", "i", "l", "i", "t", "i", "e", "s",
                  "^", "{", "}">> \o Capabilities \o <<LF>>

RECURSIVE PktLines(_)
PktLines(lines) ==
    IF lines = <<>> THEN <<>> ELSE PktLine(lines[1]) \o PktLines(Tail(lines))

\* the lines a response may carry: a ref line with the expected id or an
\* older one, for HEAD, the branch, the target ref, or a ref whose name
\* starts with the name of the target; a line which is no ref line; the
\* line of an advertisement without refs
RefOf(id, name, caps) == [form |-> "ref", id |-> id, name |-> name, caps |-> caps]
Broken == [form |-> "broken", id |-> "old", name |-> "other", caps |-> FALSE]
NoRefs == [form |-> "no_refs", id |-> "zero", name |-> "capabilities", caps |-> TRUE]
HeadLine == RefOf("old", "HEAD", TRUE)
BranchLine == RefOf("old", "branch", FALSE)
MatchLine == RefOf("expected", "target", FALSE)
StaleLine == RefOf("old", "target", FALSE)

\* a response: is it OK, does it start with the service announcement, is
\* the announcement followed by a flush, the lines, and is there a flush
\* after them
Shaped(ok, announced, flushed, lines, ended) ==
    [ok |-> ok, announced |-> announced, flushed |-> flushed, lines |-> lines,
     ended |-> ended]

ResponseKinds ==
    {"visible", "stale", "stale_only", "absent", "similar_name", "no_refs", "not_ok",
     "bad_header", "no_flush", "truncated", "bad_line", "bad_line_after_match",
     "bad_line_after_stale"}

\* what the responses the model draws from are made of
Shape(kind) ==
    CASE kind = "visible" ->
              Shaped(TRUE, TRUE, TRUE, <<HeadLine, BranchLine, MatchLine>>, TRUE)
      [] kind = "stale" ->
              Shaped(TRUE, TRUE, TRUE, <<HeadLine, BranchLine, StaleLine>>, TRUE)
      [] kind = "stale_only" ->
              Shaped(TRUE, TRUE, TRUE, <<RefOf("old", "target", TRUE)>>, TRUE)
      [] kind = "absent" ->
              Shaped(TRUE, TRUE, TRUE, <<HeadLine, BranchLine>>, TRUE)
      [] kind = "similar_name" ->
              Shaped(TRUE, TRUE, TRUE, <<HeadLine, RefOf("expected", "similar", FALSE)>>, TRUE)
      [] kind = "no_refs" ->
              Shaped(TRUE, TRUE, TRUE, <<NoRefs>>, TRUE)
      [] kind = "not_ok" ->
              Shaped(FALSE, TRUE, TRUE, <<HeadLine, MatchLine>>, TRUE)
      [] kind = "bad_header" ->
              Shaped(TRUE, FALSE, TRUE, <<MatchLine>>, TRUE)
      [] kind = "no_flush" ->
              Shaped(TRUE, TRUE, FALSE, <<MatchLine>>, TRUE)
      [] kind = "truncated" ->
              Shaped(TRUE, TRUE, TRUE, <<HeadLine>>, FALSE)
      [] kind = "bad_line" ->
              Shaped(TRUE, TRUE, TRUE, <<HeadLine, Broken, MatchLine>>, TRUE)
      [] kind = "bad_line_after_match" ->
              Shaped(TRUE, TRUE, TRUE, <<HeadLine, MatchLine, Broken>>, TRUE)
      [] kind = "bad_line_after_stale" ->
              Shaped(TRUE, TRUE, TRUE, <<HeadLine, StaleLine, Broken>>, TRUE)

\* the name of a ref on the wire
WireName(name) ==
    CASE name = "HEAD" -> <<"H", "E", "A", "D">>
      [] name = "branch" -> RefsHeads \o BranchName
      [] name = "target" -> RefsHeads \o StagingRefName
      [] name = "similar" -> RefsHeads \o StagingRefName \o <<"2">>
      [] OTHER -> RefsHeads \o <<"x">>

\* a line on the wire: expected is the head the ref was set to, old a head
\* the remote may still advertise
WireLine(line, expected, old) ==
    LET commit == IF line.id = "expected" THEN expected ELSE old
    IN CASE line.form = "ref" ->
              AdvertisedRef(commit, WireName(line.name),
                            IF line.caps THEN Capabilities ELSE <<>>)
         [] line.form = "broken" -> BrokenRef(commit, WireName(line.name))
         [] line.form = "no_refs" -> NoRefsLine

\* the response of the given kind as the remote sends it
Response(kind, expected, old) ==
    LET shape == Shape(kind)
        announcement == IF shape.announced THEN ServiceHeader \o <<LF>>
                        ELSE <<"#", " ", "s", "e", "r", "v", "i", "c", "e", "=", "x", LF>>
    IN [ok |-> shape.ok,
        body |-> PktLine(announcement)
                 \o (IF shape.flushed THEN FlushPkt ELSE <<>>)
                 \o PktLines([i \in 1..Len(shape.lines) |->
                                 WireLine(shape.lines[i], expected, old)])
                 \o (IF shape.ended THEN FlushPkt ELSE <<>>)]

----------------------------------------------------------------------------
(* stage_into after the batches: the Staging and its publication *)

\* a schedule one delay shorter
ThreeDelays == <<10, 10, 10>>

\* WAIT_FOR_VISIBILITY = [10, 10, 10, 10]
WAIT_FOR_VISIBILITY == <<10, 10, 10, 10>>

\* utils.backoff(delays=..., exc=TimeoutError): the number of calls of the
\* function it makes while the function raises exc
BackoffCalls(delays) == Len(delays)

\* the loop of stage_batches is over
BatchLoopOver ==
    /\ pc = "batches"
    /\ (bi > Len(batched_prs) \/ Len(staged) >= batch_limit)

\* a loop which records the heads as they are, without dummy commits
FinalizeAsIs(repos, state, objs, original) ==
    [state |-> state, objs |-> objs, commits |-> state]

RECURSIVE Finalize(_, _, _, _)
\* the loop over staging_state.items(): a repository whose head is its
\* original head gets a dummy commit, with the tree of the head and the
\* head as parent, as its head.  commits is the commit recorded besides
\* the head.
Finalize(repos, state, objs, original) ==
    IF repos = <<>> THEN [state |-> state, objs |-> objs, commits |-> state]
    ELSE LET r == repos[1]
             dummy_head == NewId(objs)
             rest == IF state[r] # original[r]
                     THEN Finalize(Tail(repos), state, objs, original)
                     ELSE Finalize(Tail(repos), [state EXCEPT ![r] = dummy_head],
                                   CreateCommit(objs, objs[state[r]].tree, <<state[r]>>),
                                   original)
         IN [rest EXCEPT !.commits[r] = state[r]]

\* stage_into when nothing was staged: returns None
StageIntoNothing ==
    /\ BatchLoopOver
    /\ staged = <<>>
    /\ pc' = "idle"
    /\ last' = [op |-> "stage_into", result |-> "nothing"]
    /\ UNCHANGED msg
    /\ UNCHANGED <<prs, active, splits, batch_limit, refs, objects, original_heads,
                   staging_state, batched_prs, bi, pi, new_heads, staged, stagings,
                   notifications, ri, tries, attempts, faults, only_stale, verdicts, checkpoint>>

\* stage_into creates the Staging, which becomes the active staging of the
\* branch
StageIntoCreate ==
    /\ BatchLoopOver
    /\ staged # <<>>
    /\ LET final == Finalize(RepoSeq, staging_state, objects, original_heads)
       IN /\ staging_state' = final.state
          /\ objects' = final.objs
          /\ stagings' = Append(stagings, [target |-> Branch, batch_ids |-> staged,
                                            heads |-> final.state,
                                            commits |-> final.commits])
    /\ active' = TRUE
    /\ ri' = 1
    /\ pc' = "publish"
    /\ last' = [op |-> "stage_into", result |-> "created"]
    /\ UNCHANGED msg
    /\ UNCHANGED <<prs, splits, batch_limit, refs, original_heads, batched_prs, bi, pi,
                   new_heads, staged, notifications, tries, attempts, faults, only_stale, verdicts, checkpoint>>

\* a loop which stays on the first repository
FirstRepo == RepoSeq[1]

\* the repository being published
PubRepo == RepoSeq[ri]

\* check_visibility for the repository being published, on a response
Visibility(kind) ==
    check_visibility(Response(kind, staging_state[PubRepo], refs[PubRepo].branch),
                     StagingRefName, Sha(staging_state[PubRepo]))

\* it.gh.set_ref('staging.<branch>', it.head).  check_visibility depends on
\* the response alone: what it answers on each response the remote may
\* give for this ref is computed here, once for all the calls of the backoff.
PublishRef ==
    /\ pc = "publish"
    /\ refs' = [refs EXCEPT ![PubRepo].staging = staging_state[PubRepo]]
    /\ tries' = 0
    /\ only_stale' = TRUE
    /\ verdicts' = [kind \in ResponseKinds |-> Visibility(kind)]
    /\ pc' = "visibility"
    /\ last' = [op |-> "set_ref", repo |-> PubRepo]
    /\ UNCHANGED msg
    /\ UNCHANGED <<prs, active, splits, batch_limit, objects, original_heads,
                   staging_state, batched_prs, bi, pi, new_heads, staged, stagings,
                   notifications, ri, attempts, faults, checkpoint>>

\* the responses whose only line for the ref carries another id
StaleKinds == {"stale", "stale_only", "bad_line_after_stale"}

\* what the last step was: a call of wait_for_visibility
VisibilityRecord(result) ==
    [op |-> "wait_for_visibility", repo |-> PubRepo, result |-> result]

\* one call of wait_for_visibility by backoff.  The head is visible: it
\* returns, the next repository is published, and after the last one
\* stage_into returns the Staging.  The head is not visible: it raises
\* TimeoutError, and backoff sleeps and calls it again, or lets the
\* TimeoutError through after the last call.  parse_refs_smart raises: the
\* exception is no TimeoutError and leaves backoff, stage_into and
\* try_staging at once.
WaitForVisibilityOn(kind) ==
    /\ pc = "visibility"
    /\ LET result == verdicts[kind]
           more == tries + 1 < BackoffCalls(WAIT_FOR_VISIBILITY)
       IN /\ only_stale' = (only_stale /\ kind \in StaleKinds)
          /\ last' = VisibilityRecord(
                 CASE result = "true" -> "visible"
                   [] result = "error" -> "protocol error"
                   [] result = "false" /\ more -> "not visible"
                   [] OTHER -> "timeout")
          /\ pc' = CASE result = "true" ->
                          IF ri < Len(RepoSeq) THEN "publish" ELSE "idle"
                     [] result = "false" /\ more -> "visibility"
                     [] OTHER -> "raised"
          /\ ri' = IF result = "true" /\ ri < Len(RepoSeq) THEN ri + 1 ELSE ri
          /\ tries' = IF result = "true" THEN 0 ELSE tries + 1
    /\ UNCHANGED msg
    /\ UNCHANGED <<prs, active, splits, batch_limit, refs, objects, original_heads,
                   staging_state, batched_prs, bi, pi, new_heads, staged, stagings,
                   notifications, attempts, faults, verdicts, checkpoint>>

\* the remote answers the request of check_visibility with one of the
\* responses
WaitForVisibility == \E kind \in ResponseKinds : WaitForVisibilityOn(kind)

----------------------------------------------------------------------------
(* The specification *)

Next ==
    \/ TryStagingActive
    \/ TryStagingNothing
    \/ TryStagingBegin
    \/ StagePr
    \/ StageIntoNothing
    \/ StageIntoCreate
    \/ PublishRef
    \/ WaitForVisibility

Spec == Init /\ [][Next]_vars

----------------------------------------------------------------------------
(* The selection of try_staging on its own: the PR store, the splits and the
   active staging are drawn, and try_staging runs up to the call of
   stage_into *)

\* state and priority of a PR
Profiles ==
    {[state |-> "ready", priority |-> 0], [state |-> "ready", priority |-> 1],
     [state |-> "ready", priority |-> 2], [state |-> "opened", priority |-> 0],
     [state |-> "opened", priority |-> 2], [state |-> "merged", priority |-> 0]}

\* branch.split_ids: a split record is a sequence of batches
SplitHead == << <<1>>, <<2, 3>> >>
SplitTail == << <<4>> >>
SplitChoices == {<<>>, <<SplitHead>>, <<SplitHead, SplitTail>>}

\* a PR of the store, for the selection
SelectPr(p, profile, label, blocked, target) ==
    [NewPr(p, None, TRUE, profile.state) EXCEPT
        !.priority = profile.priority, !.label = label, !.blocked = blocked,
        !.target = target]

\* PRs 1 to 3 have any profile, PR 4 is ready or not; PRs 3 and 4 may share
\* a label which is nearly a patch label; PR 2 may be blocked, or PR 3 may
\* target another branch of the project
SelectInit ==
    /\ pc = "idle"
    /\ \E profile \in [1..3 -> Profiles], label \in [1..2 -> {Label.fix, Label.patch}],
          third \in {Label.fix, Label.patched}, fourth \in {"ready", "opened"},
          quirk \in {"none", "blocked", "retargeted"} :
           prs = [p \in PRs |->
                    SelectPr(p,
                             IF p = 4 THEN [state |-> fourth, priority |-> 2] ELSE profile[p],
                             CASE p = 4 -> Label.patched [] p = 3 -> third [] OTHER -> label[p],
                             p = 2 /\ quirk = "blocked",
                             IF p = 3 /\ quirk = "retargeted" THEN "saas" ELSE Branch)]
    /\ splits \in SplitChoices
    /\ active \in (IF splits = <<>> THEN BOOLEAN ELSE {FALSE})
    /\ batch_limit = 1
    /\ NothingStaged
    /\ msg = NoMessage

SelectNext ==
    \/ TryStagingActive
    \/ TryStagingNothing
    \/ TryStagingBegin

SelectSpec == SelectInit /\ [][SelectNext]_vars

----------------------------------------------------------------------------
(* Commit messages: text, lines and the patterns of Message.from_message.
   A text is a sequence of characters, LF standing for \n and TAB for \t *)

LowerCase == <<"a", "b", "c", "d", "e", "f", "g", "h", "i", "j", "k", "l", "m",
               "n", "o", "p", "q", "r", "s", "t", "u", "v", "w", "x", "y", "z">>
UpperCase == <<"A", "B", "C", "D", "E", "F", "G", "H", "I", "J", "K", "L", "M",
               "N", "O", "P", "Q", "R", "S", "T", "U", "V", "W", "X", "Y", "Z">>

\* str.lower() and str.upper() of one character: a letter of one case
\* becomes the same letter of the other case
Cased(c, from, to) ==
    IF \E i \in DOMAIN from : from[i] = c
    THEN to[CHOOSE i \in DOMAIN from : from[i] = c]
    ELSE c

\* str.lower()
lower(chars) == [i \in 1..Len(chars) |-> Cased(chars[i], UpperCase, LowerCase)]

\* str.capitalize(): the first character in upper case, the others in lower case
capitalize(chars) ==
    [i \in 1..Len(chars) |-> IF i = 1 THEN Cased(chars[i], LowerCase, UpperCase)
                                     ELSE Cased(chars[i], UpperCase, LowerCase)]

RECURSIVE splitlines(_)
\* str.splitlines(): the lines without their line ends; a line end at the
\* end of the text starts no line
splitlines(text) ==
    IF text = <<>> THEN <<>>
    ELSE LET n == RunLength(text, 1, {LF})
         IN <<SubSeq(text, 1, n)>> \o splitlines(SubSeq(text, n + 2, Len(text)))

RECURSIVE Join(_)
\* '\n'.join(lines)
Join(lines) ==
    IF lines = <<>> THEN <<>>
    ELSE IF Len(lines) = 1 THEN lines[1]
    ELSE lines[1] \o <<LF>> \o Join(Tail(lines))

\* reversed(items)
Reversed(items) == [i \in 1..Len(items) |-> items[Len(items) + 1 - i]]

RECURSIVE lstrip(_)
\* str.lstrip(): without the whitespace at the start
lstrip(chars) ==
    IF chars # <<>> /\ chars[1] \in {" ", LF, "TAB"} THEN lstrip(Tail(chars)) ELSE chars

RECURSIVE rstripped(_)
\* str.rstrip(): without the whitespace at the end
rstripped(chars) ==
    IF chars # <<>> /\ chars[Len(chars)] \in {" ", LF, "TAB"}
    THEN rstripped(SubSeq(chars, 1, Len(chars) - 1))
    ELSE chars

\* a body stored as it is given
unstripped(value) == value

\* str.strip()
strip(chars) == rstripped(lstrip(chars))

\* the number of characters of chars, from the first on, which are in set
Leading(chars, set) ==
    Min({j \in 1..(Len(chars) + 1) : j > Len(chars) \/ chars[j] \notin set}) - 1

\* HEADER.fullmatch(line) for ([A-Za-z-]+): (.*) : does it match, and the
\* groups 1 and 2
HEADER(line) ==
    LET k == Leading(line, Range(LowerCase) \cup Range(UpperCase) \cup {"-"})
    IN [match |-> k >= 1 /\ Len(line) >= k + 2 /\ line[k + 1] = ":" /\ line[k + 2] = " ",
        key |-> SubSeq(line, 1, k), value |-> SubSeq(line, k + 3, Len(line))]

\* BREAK.fullmatch(line): at most 3 spaces, then one of * _ - three times or
\* more, with spaces and tabs between and after
BREAK(line) ==
    LET indent == Leading(line, {" "})
        rest == SubSeq(line, indent + 1, Len(line))
    IN /\ indent <= 3
       /\ rest # <<>>
       /\ rest[1] \in {"*", "_", "-"}
       /\ \A i \in 1..Len(rest) : rest[i] \in {rest[1], " ", "TAB"}
       /\ Cardinality({i \in 1..Len(rest) : rest[i] = rest[1]}) >= 3

\* SETEX_UNDERLINE.fullmatch(line): at most 3 spaces, then - and = once or
\* more, then spaces
SETEX_UNDERLINE(line) ==
    LET indent == Leading(line, {" "})
        rest == SubSeq(line, indent + 1, Len(line))
        run == Leading(rest, {"-", "="})
    IN /\ indent <= 3
       /\ run >= 1
       /\ \A i \in (run + 1)..Len(rest) : rest[i] = " "

----------------------------------------------------------------------------
(* Message: from_message and __str__ *)

\* 'co-authored-by' and 'Co-authored-by'
co_authored_by == <<"c", "o", "-", "a", "u", "t", "h", "o", "r", "e", "d", "-", "b", "y">>
Co_authored_by == capitalize(co_authored_by)

\* Message.__setattr__: the body is stored stripped
StoredBody(value) == strip(value)

\* Message(body, headers); headers is the list of (key, value) of a
\* werkzeug Headers
Message(body, headers) == [body |-> StoredBody(body), headers |-> headers]

\* from_message: the variables of the loop over the lines, before the loop.
\* maybe_setex is empty for None; headers and body are in the order they
\* are appended in, last line first

\* body and body[-1]
EndsInText(body) == body # <<>> /\ body[Len(body)] # <<>>

\* a loop which takes a Key: value line for a header wherever it is
LoopStepAnywhere(st, line, handle_break) ==
    LET h == HEADER(line)
    IN IF line = <<>> THEN st
       ELSE IF h.match THEN [st EXCEPT !.headers = Append(@, <<h.key, h.value>>)]
       ELSE [st EXCEPT !.body = Append(@, line), !.in_headers = FALSE]

\* from_message: one turn of the loop, lines 657-690
LoopStep(st, line, handle_break) ==
    LET pending == IF st.maybe_setex = <<>> THEN st
                   ELSE [st EXCEPT !.body = IF line # <<>> THEN Append(@, st.maybe_setex)
                                             ELSE <<>>,
                                   !.maybe_setex = <<>>]
        h == HEADER(line)
    IN IF line = <<>> THEN
           IF ~pending.in_headers /\ EndsInText(pending.body)
           THEN [pending EXCEPT !.body = Append(@, line)]
           ELSE pending
       ELSE IF handle_break /\ BREAK(line) THEN
           IF SETEX_UNDERLINE(line) THEN [pending EXCEPT !.maybe_setex = line]
           ELSE [pending EXCEPT !.body = <<>>]
       ELSE IF h.match /\ (pending.in_headers \/ lower(h.key) = co_authored_by)
            THEN [pending EXCEPT !.headers = Append(@, <<h.key, h.value>>)]
       ELSE [pending EXCEPT !.body = Append(@, line), !.in_headers = FALSE]

RECURSIVE Loop(_, _, _, _)
\* for line in reversed(lines[1:]): the lines from the i-th up to the second
Loop(lines, i, st, handle_break) ==
    IF i < 2 THEN st
    ELSE Loop(lines, i - 1, LoopStep(st, lines[i], handle_break), handle_break)

\* Message.from_message(msg): handle_break when msg is a PR, whose message
\* is the text.  raises: lines[0] of a text without lines
from_message(text, handle_break) ==
    LET lines == splitlines(text)
        start == [in_headers |-> TRUE, maybe_setex |-> <<>>, headers |-> <<>>, body |-> <<>>]
        st == Loop(lines, Len(lines), start, handle_break)
        body == IF EndsInText(st.body) THEN Append(st.body, <<>>) ELSE st.body
    IN IF lines = <<>> THEN [raises |-> TRUE, body |-> <<>>, headers |-> <<>>]
       ELSE [raises |-> FALSE] @@
            Message(Join(Reversed(Append(body, lines[1]))), Reversed(st.headers))

RECURSIVE OrderedSet(_)
\* OrderedSet(items): each item once, in the order of the first occurrences
OrderedSet(items) ==
    IF items = <<>> THEN <<>>
    ELSE LET rest == OrderedSet(SubSeq(items, 1, Len(items) - 1))
             item == items[Len(items)]
         IN IF item \in Range(rest) THEN rest ELSE Append(rest, item)

\* Headers.getlist(key): the values of the key, compared without case
getlist(headers, key) ==
    LET hits == SelectSeq(headers, LAMBDA h : lower(h[1]) = lower(key))
    IN [i \in 1..Len(hits) |-> hits[i][2]]

\* an order of the keys which leaves them where they were met
UnsortedKeys(headers) ==
    OrderedSet([i \in 1..Len(headers) |-> capitalize(headers[i][1])])

\* keys = list(OrderedSet(k.capitalize() for k in self.headers.keys()));
\* keys.sort(key=lambda k: k == 'Co-authored-by')
SortedKeys(headers) ==
    LET keys == OrderedSet([i \in 1..Len(headers) |-> capitalize(headers[i][1])])
    IN SelectSeq(keys, LAMBDA k : k # Co_authored_by)
       \o SelectSeq(keys, LAMBDA k : k = Co_authored_by)

RECURSIVE WriteValues(_, _)
\* for v in self.headers.getlist(k): k, ': ', v, '\n'
WriteValues(key, values) ==
    IF values = <<>> THEN <<>>
    ELSE key \o <<":", " ">> \o values[1] \o <<LF>> \o WriteValues(key, Tail(values))

RECURSIVE WriteKeys(_, _)
\* for k in keys
WriteKeys(keys, headers) ==
    IF keys = <<>> THEN <<>>
    ELSE WriteValues(keys[1], getlist(headers, keys[1])) \o WriteKeys(Tail(keys), headers)

\* Message.__str__
str(m) ==
    IF m.headers = <<>> THEN m.body \o <<LF>>
    ELSE m.body \o <<LF, LF>> \o WriteKeys(SortedKeys(m.headers), m.headers)

----------------------------------------------------------------------------
(* Messages on their own: a text is drawn, a Message is built from it as a
   raw string or as the message of a PR, co-authors may be added to it as
   stage_squash does, it is serialized, and the result is parsed again *)

\* number of lines a text may have after its title
MaxLines == 3

\* the lines the texts are made of
Line ==
    [blank |-> <<>>,
     text |-> <<"f", "i", "x">>,
     space |-> <<" ">>,
     dash |-> <<"-", "-", "-">>,
     star |-> <<"*", "*", "*">>,
     cc |-> <<"C", "c", ":", " ", "a">>,
     lower_cc |-> <<"c", "c", ":", " ", "b">>,
     to |-> <<"T", "o", ":", " ", "c">>,
     co_author |->
        <<"C", "o", "-", "A", "u", "t", "h", "o", "r", "e", "d", "-", "B", "y", ":", " ", "x">>]
Lines == {Line[kind] : kind \in DOMAIN Line}

\* the texts: the empty text, and a title followed by at most MaxLines lines
Texts ==
    {<<>>} \cup {Join(<<t>> \o ls) : t \in {Line.text, Line.cc},
                                     ls \in UNION {[1..k -> Lines] : k \in 0..MaxLines}}

\* ('Co-Authored-By', "%s <%s>" % author) for two authors, sorted
CoAuthors ==
    LET key == <<"C", "o", "-", "A", "u", "t", "h", "o", "r", "e", "d", "-", "B", "y">>
    IN << <<key, <<"a", " ", "<", "a", ">">>>>, <<key, <<"b", " ", "<", "b", ">">>>> >>

\* no Message
NoParse == [raises |-> FALSE, body |-> <<>>, headers |-> <<>>]

MessageInit ==
    /\ msg \in {[op |-> "text", text |-> text, handle_break |-> handle_break,
                 message |-> NoParse, extended |-> FALSE, out |-> <<>>, again |-> NoParse] :
                   text \in Texts, handle_break \in BOOLEAN}
    /\ pc = "idle"
    /\ prs = [p \in PRs |-> NewPr(p, None, p \in SingleCommit, "opened")]
    /\ active = FALSE
    /\ splits = <<>>
    /\ batch_limit = 1
    /\ NothingStaged

\* the variables of the staging, which the work on a message leaves alone
staging_vars ==
    <<pc, prs, active, splits, batch_limit, refs, objects, original_heads,
      staging_state, batched_prs, bi, pi, new_heads, staged, stagings,
      notifications, last, ri, tries, attempts, faults, only_stale, verdicts,
      checkpoint>>

\* Message.from_message(msg)
FromMessage ==
    /\ msg.op = "text"
    /\ \E m \in {from_message(msg.text, msg.handle_break)} :
          msg' = [msg EXCEPT !.op = IF m.raises THEN "raised" ELSE "message",
                             !.message = m]
    /\ UNCHANGED staging_vars

\* stage_squash with several authors: msg.headers.extend(sorted(...))
AddCoAuthors ==
    /\ msg.op = "message"
    /\ ~msg.extended
    /\ msg' = [msg EXCEPT !.message.headers = @ \o CoAuthors, !.extended = TRUE]
    /\ UNCHANGED staging_vars

\* str(msg)
Serialize ==
    /\ msg.op = "message"
    /\ msg' = [msg EXCEPT !.op = "serialized", !.out = str(msg.message)]
    /\ UNCHANGED staging_vars

\* Message.from_message(str(msg)), of the raw string
Reparse ==
    /\ msg.op = "serialized"
    /\ msg' = [msg EXCEPT !.op = "reparsed", !.again = from_message(msg.out, FALSE)]
    /\ UNCHANGED staging_vars

MessageNext ==
    \/ FromMessage
    \/ AddCoAuthors
    \/ Serialize
    \/ Reparse

MessageSpec == MessageInit /\ [][MessageNext]_vars

----
(* Properties *)

\* the step is a call of stage on the current PR of the current batch
StageStep == InBatchLoop /\ last'.op = "stage"

\* C1: when stage raises on a PR of a batch, whichever exception and however
\* many PRs of the batch were staged before, every repository's temporary
\* ref is afterwards what it was when the batch began, which is the head of
\* the staging state: the one the last staged batch left, or the original
\* head.
C1_Rollback ==
    [][(StageStep /\ last'.kind # "staged") =>
          /\ TmpRefs(refs') = checkpoint
          /\ \A r \in Repos : refs'[r].tmp = staging_state[r]
          /\ staging_state' = staging_state]_vars

\* C1 happens: the second PR of a batch fails after the first one was
\* staged, in an attempt where an earlier batch was staged in the
\* repository of the failing one; the temporary ref of that repository is
\* on the head the earlier batch left, the other one on its original head
C1_Witness ==
    /\ last.op = "stage"
    /\ last.kind = "merge_error"
    /\ last.index = 2
    /\ \E r, o \in Repos :
          /\ r = prs[last.pr].repository
          /\ refs[r].tmp = staging_state[r]
          /\ staging_state[r] # original_heads[r]
          /\ o # r
          /\ refs[o].tmp = original_heads[o]

\* C2: try_staging on a branch with an active staging returns nothing: it
\* selects no batch, consumes no split, touches no ref, no commit and no
\* PR, and creates no Staging; and a Staging is only ever created while
\* none is active.
C2_ActiveStagingBlocks ==
    [][/\ (pc = "idle" /\ active) =>
             /\ last' = [op |-> "try_staging", result |-> "active"]
             /\ UNCHANGED <<pc, prs, active, splits, refs, objects, batched_prs,
                            staging_state, staged, stagings, notifications>>
       /\ (stagings' # stagings) => ~active]_vars

\* C2 happens: try_staging returned nothing on a branch with an active
\* Staging it created earlier, though PRs are ready
C2_Witness ==
    /\ last = [op |-> "try_staging", result |-> "active"]
    /\ active
    /\ stagings # <<>>
    /\ Rows(prs) # <<>>

\* stage gets as far as its consistency check: every commit has its emails,
\* there are at most 250 commits, and at most 50 unless the method of the
\* PR is merge or squash
ReachesCheck(pr, live) ==
    /\ live.emails
    /\ live.commits <= MergeLimit
    /\ live.commits > RebaseLimit => pr.merge_method \in {"merge", "squash"}

\* what stage_batch does with a Mismatch on the current PR: the head of the
\* PR is the live head, the PR is opened, the mismatch is notified and
\* nothing else is, no batch is added and the temporary ref of the
\* repository is what it was before the PR
MismatchOutcome ==
    /\ last'.kind = "mismatch"
    /\ prs'[CurPr].head = OtherHead(prs[CurPr].head)
    /\ prs'[CurPr].state = "opened"
    /\ notifications' = Append(notifications, [kind |-> "staging.mismatch", pr |-> CurPr])
    /\ staged' = staged
    /\ refs'[CurRepo].tmp = refs[CurRepo].tmp

\* C3, as amended: when the live head of a PR differs from its cached head,
\* the PR passes the checks stage makes first (emails, commit limits) and
\* its live base is a branch of the project, staging it yields a Mismatch:
\* head rewritten, state opened, mismatch notified, batch not staged,
\* temporary ref of its repository unchanged.
C3_MismatchOnMovedHead ==
    [][(/\ StageStep
        /\ ~last'.live.head_same
        /\ ReachesCheck(prs[CurPr], last'.live)
        /\ last'.live.base \in ManagedBranches) => MismatchOutcome]_vars

\* C3 happens: a PR whose head moved, with a conflict waiting on the
\* remote, ended in a Mismatch
C3_Witness ==
    /\ last.op = "stage"
    /\ last.kind = "mismatch"
    /\ ~last.live.head_same
    /\ last.live.fail = "conflict"
    /\ prs[last.pr].state = "opened"
    /\ prs[last.pr].head = OtherHead(CachedHead(last.pr))

\* C3, as stated: whenever the live head of a PR differs from its cached
\* head, staging it yields a Mismatch.
C3_AsStated ==
    [][(StageStep /\ ~last'.live.head_same) => MismatchOutcome]_vars

\* one of the four values the consistency check compares differs between
\* the PR store and the remote: head, target branch, squash flag against
\* the remote having exactly one commit, message
Disagrees(pr, live) ==
    \/ ~live.head_same
    \/ live.base # pr.target
    \/ pr.squash # (live.commits = 1)
    \/ ~live.msg_same

\* C4, as stated: when stage gets as far as its consistency check, it raises
\* Mismatch if and only if one of the four compared values disagrees, the
\* squash flag in both directions; and then the PR is opened and its stored
\* values are the live ones.
C4_MismatchIffDisagrees ==
    [][(/\ StageStep
        /\ ReachesCheck(prs[CurPr], last'.live)
        /\ last'.live.base \in ManagedBranches) =>
          /\ last'.kind = "mismatch" <=> Disagrees(prs[CurPr], last'.live)
          /\ last'.kind = "mismatch" =>
                /\ prs'[CurPr].state = "opened"
                /\ prs'[CurPr].target = last'.live.base
                /\ prs'[CurPr].squash = (last'.live.commits = 1)
                /\ prs'[CurPr].head =
                      (IF last'.live.head_same THEN prs[CurPr].head
                       ELSE OtherHead(prs[CurPr].head))]_vars

\* C5, as stated: whenever stage raises Unmergeable on a PR, with or without
\* the PR in the exception, the PR ends in state error, a merge-failed
\* notification is sent for it, and the loop goes on with the next batch.
C5_UnmergeableMarksError ==
    [][(StageStep /\ last'.kind \in {"unmergeable", "unmergeable_str"}) =>
          /\ prs'[CurPr].state = "error"
          /\ notifications' = Append(notifications, [kind |-> "merge.failed", pr |-> CurPr])
          /\ pc' = "batches"
          /\ bi' = bi + 1]_vars

\* C6: when a batch fails with a merge error which is not Unmergeable, the
\* PR is set to error and notified if no batch was staged before, and left
\* alone without notification otherwise; either way the staged batches and
\* the heads they left are kept and the loop goes on with the next batch.
C6_MergeErrorAfterStaged ==
    [][(StageStep /\ last'.kind = "merge_error") =>
          /\ IF staged = <<>>
             THEN /\ prs'[CurPr] = [prs[CurPr] EXCEPT !.state = "error"]
                  /\ notifications' =
                        Append(notifications, [kind |-> "merge.failed", pr |-> CurPr])
             ELSE /\ prs'[CurPr] = prs[CurPr]
                  /\ notifications' = notifications
          /\ staged' = staged
          /\ staging_state' = staging_state
          /\ pc' = "batches"
          /\ bi' = bi + 1
          /\ pi' = 1]_vars

\* C6 happens: a PR met a merge error after a batch was staged; it is still
\* ready, nothing was notified, the batch is kept and the next batch is up
C6_Witness ==
    /\ last.op = "stage"
    /\ last.kind = "merge_error"
    /\ staged # <<>>
    /\ prs[last.pr].state = "ready"
    /\ notifications = <<>>
    /\ InBatchLoop

\* no PR of the batches of the Staging is in the repository
Untouched(st, r) ==
    \A i \in 1..Len(st.batch_ids) :
        \A j \in 1..Len(st.batch_ids[i].prs) : PrRepository(st.batch_ids[i].prs[j]) # r

\* C7: for every Staging stage_into created and every repository, the head
\* recorded in the Staging, which is the head of the staging state and the
\* only value staging.<branch> is set to, is not the original head of the
\* repository; in a repository no PR of the Staging touched it is a new
\* commit with the tree of the original head and the original head as its
\* only parent.
C7_EveryHeadIsNew ==
    \A i \in 1..Len(stagings) : \A r \in Repos :
        LET st == stagings[i]
            head == st.heads[r]
        IN /\ head # original_heads[r]
           /\ staging_state[r] = head
           /\ refs[r].staging \in {NoCommit, head}
           /\ Untouched(st, r) =>
                 /\ head \notin {original_heads[r], st.commits[r]}
                 /\ st.commits[r] = original_heads[r]
                 /\ objects[head] = [tree |-> objects[original_heads[r]].tree,
                                     parents |-> <<original_heads[r]>>]

\* C7 happens: a Staging was created whose PRs left a repository untouched,
\* and the dummy commit of that repository was published
C7_Witness ==
    /\ stagings # <<>>
    /\ \E r \in Repos :
          /\ Untouched(stagings[1], r)
          /\ refs[r].staging = stagings[1].heads[r]
          /\ refs[r].staging # NoCommit

TargetLines(shape) ==
    {i \in 1..Len(shape.lines) :
        shape.lines[i].form = "ref" /\ shape.lines[i].name = "target"}

\* the response has a line for the target ref, and the first one carries
\* the given id
FirstTargetCarries(shape, id) ==
    /\ TargetLines(shape) # {}
    /\ shape.lines[Min(TargetLines(shape))].id = id

\* the framing is right up to line n: announcement, flush, and ref lines
FramedTo(shape, n) ==
    /\ shape.announced
    /\ shape.flushed
    /\ \A i \in 1..n : shape.lines[i].form = "ref"

\* the whole advertisement is well framed: announcement, flush, then ref
\* lines or the line of an advertisement without refs, then a flush
WellFramed(shape) ==
    /\ shape.announced
    /\ shape.flushed
    /\ shape.ended
    /\ \/ FramedTo(shape, Len(shape.lines))
       \/ shape.lines = <<NoRefs>>

\* C9, as amended: check_visibility returns true if and only if the response
\* is OK, the advertisement is well framed up to and including the first
\* line for refs/heads/<branch_name>, and that line carries the expected
\* head, whatever follows that line.  It returns false when the response is
\* not OK, when a well-framed advertisement has no line for the ref or is
\* the "no refs" line, and when the first line for the ref, reached through
\* well-framed lines, carries another id.
C9_VisibleIffFirstLineMatches ==
    \A kind \in DOMAIN verdicts :
        LET shape == Shape(kind)
            reached == TargetLines(shape) # {}
                       /\ FramedTo(shape, Min(TargetLines(shape)))
        IN /\ verdicts[kind] = "true" <=>
                 (shape.ok /\ reached /\ FirstTargetCarries(shape, "expected"))
           /\ ~shape.ok => verdicts[kind] = "false"
           /\ (WellFramed(shape) /\ TargetLines(shape) = {}) => verdicts[kind] = "false"
           /\ (reached /\ FirstTargetCarries(shape, "old")) => verdicts[kind] = "false"

\* C9 happens: for a published ref, check_visibility answered true on an
\* advertisement of the expected head and on one with a broken line after
\* it, and false on a response which is not OK, on one without the ref and
\* on one with an older id; and the ref was confirmed visible
C9_Witness ==
    /\ last.op = "wait_for_visibility"
    /\ last.result = "visible"
    /\ verdicts["visible"] = "true"
    /\ verdicts["bad_line_after_match"] = "true"
    /\ verdicts["not_ok"] = "false"
    /\ verdicts["absent"] = "false"
    /\ verdicts["stale"] = "false"

\* C9, as stated: check_visibility returns true if and only if the response
\* is OK, the advertisement is well framed, and the first line for the ref
\* carries the expected head; it returns false when the response is not OK,
\* when the ref is not advertised, on the "no refs" line, and when the ref
\* is advertised with another id.
C9_AsStated ==
    \A kind \in DOMAIN verdicts :
        LET shape == Shape(kind)
        IN /\ verdicts[kind] = "true" <=>
                 (shape.ok /\ WellFramed(shape) /\ FirstTargetCarries(shape, "expected"))
           /\ ~shape.ok => verdicts[kind] = "false"
           /\ (WellFramed(shape) /\ TargetLines(shape) = {}) => verdicts[kind] = "false"
           /\ (WellFramed(shape) /\ FirstTargetCarries(shape, "old")) =>
                 verdicts[kind] = "false"

\* one of the malformations: the first line is not the service
\* announcement, the flush after it is missing, or a line is no ref line
Malformed(shape) ==
    \/ ~shape.announced
    \/ ~shape.flushed
    \/ \E i \in 1..Len(shape.lines) : shape.lines[i].form = "broken"

\* the malformation is one the parser meets before it yields a line for the
\* target ref
MalformedBeforeTarget(shape) ==
    \/ ~shape.announced
    \/ ~shape.flushed
    \/ \E i \in 1..Len(shape.lines) :
          /\ shape.lines[i].form = "broken"
          /\ \A j \in TargetLines(shape) : i < j

\* the publication fails on this check with a protocol failure
ProtocolFailure ==
    /\ last' = VisibilityRecord("protocol error")
    /\ pc' = "raised"
    /\ UNCHANGED <<refs, ri, stagings>>

\* C10, as amended: an OK response whose advertisement is malformed before
\* any line for the published ref (announcement, flush after it, or a line
\* which is no ref line) makes the publication fail on that check with a
\* protocol failure: no further check, no "not visible", no success.
C10_MalformedIsFatal ==
    [][\A kind \in ResponseKinds :
          (/\ WaitForVisibilityOn(kind)
           /\ Shape(kind).ok
           /\ MalformedBeforeTarget(Shape(kind))) => ProtocolFailure]_vars

\* C10 happens: the second check of a published ref met a malformed
\* advertisement and the publication ended there with a protocol failure
C10_Witness ==
    /\ last = VisibilityRecord("protocol error")
    /\ pc = "raised"
    /\ tries = 2
    /\ verdicts["bad_header"] = "error"
    /\ verdicts["no_flush"] = "error"
    /\ verdicts["bad_line"] = "error"

\* C10, as stated: an OK response whose advertisement is malformed makes the
\* publication fail on that check with a protocol failure.
C10_AsStated ==
    [][\A kind \in ResponseKinds :
          (/\ WaitForVisibilityOn(kind)
           /\ Shape(kind).ok
           /\ Malformed(Shape(kind))) => ProtocolFailure]_vars

\* the step is try_staging going past its selection and into stage_into
SelectStep == pc = "idle" /\ pc' = "batches"

\* the groups of the PR store which qualify (a ready or priority-0 member)
\* and hold no blocked PR
QualifyingGroups ==
    {g \in {GroupOf(prs, p) : p \in Candidates(prs)} :
        /\ \E p \in g : prs[p].state = "ready" \/ prs[p].priority = 0
        /\ \A p \in g : ~prs[p].blocked}

\* the best priority among those groups
BestPriority == Min({GroupPriority(prs, g) : g \in QualifyingGroups})

\* the qualifying groups of a priority
GroupsAt(priority) == {g \in QualifyingGroups : GroupPriority(prs, g) = priority}

\* the batches are exactly the groups, each once, by smallest PR id
OffersExactly(batches, groups) ==
    /\ {Range(batches[i]) : i \in 1..Len(batches)} = groups
    /\ \A i, j \in 1..Len(batches) :
          i < j => Min(Range(batches[i])) < Min(Range(batches[j]))

\* C11: when try_staging on a branch without active Staging finds a
\* qualifying non-blocked group of priority 0, the batches it offers are
\* exactly all such groups of priority 0, ordered by smallest PR id, and no
\* group of priority 1 or 2; when the best priority is 1, exactly all groups
\* of priority 1 and none of priority 2.
C11_UrgentGroupsAlone ==
    [][(SelectStep /\ BestPriority \in {0, 1}) =>
          /\ OffersExactly(batched_prs', GroupsAt(BestPriority))
          /\ \A i \in 1..Len(batched_prs') :
                Min({prs[p].priority : p \in Range(batched_prs'[i])}) = BestPriority]_vars

\* C11 happens: two groups of priority 0 were offered, in the order of their
\* smallest ids, while a group of priority 1 and one of priority 2 qualified
\* and a split was pending
C11_Witness ==
    /\ last.op = "staging_setup"
    /\ Len(batched_prs) = 2
    /\ GroupsAt(0) = {Range(batched_prs[1]), Range(batched_prs[2])}
    /\ GroupsAt(1) # {}
    /\ GroupsAt(2) # {}
    /\ splits # <<>>

\* the labels of the model whose branch part is patch-<number>
PatchNumbered == {Label.patch}

\* C12: in the rows of ready_prs, two non-terminal PRs on the branch which
\* share a label that is no patch-<number> label are in the same row or in
\* none, a PR whose label is a patch-<number> label is alone in its row
\* though another PR carries the same label, and the PRs of a row have the
\* same target.
C12_GroupedByLabel ==
    LET rows == ready_prs(prs)
        Row(i) == Range(rows[i].prs)
        Live(p) == prs[p].state \notin {"merged", "closed"}
    IN \A i \in 1..Len(rows) :
          /\ \A p \in Row(i), q \in PRs :
                (/\ Live(q)
                 /\ prs[q].target = prs[p].target
                 /\ prs[q].label = prs[p].label
                 /\ prs[p].label \notin PatchNumbered) => q \in Row(i)
          /\ \A p \in Row(i) : prs[p].label \in PatchNumbered => Row(i) = {p}
          /\ \A p, q \in Row(i) : prs[p].target = prs[q].target
          /\ \A p \in Row(i) : Live(p)

\* C12 happens: try_staging offered PRs 1 and 2, which carry the same patch
\* label, as a batch each, and PR 4 without PR 3, which carries the label
\* of PR 4 and is ready but targets another branch
C12_Witness ==
    /\ last.op = "staging_setup"
    /\ prs[1].label = Label.patch
    /\ prs[2].label = Label.patch
    /\ prs[3].label = prs[4].label
    /\ prs[3].target # prs[4].target
    /\ prs[3].state = "ready"
    /\ ready_prs(prs) = <<[priority |-> 2, prs |-> <<1>>], [priority |-> 2, prs |-> <<2>>],
                          [priority |-> 2, prs |-> <<4>>]>>
    /\ batched_prs = << <<1>>, <<2>>, <<4>> >>

\* C13: when the best qualifying priority is 2 and the branch holds split
\* records, try_staging offers the batches of the first split record, not a
\* selection of ready groups, and deletes that record, leaving the other
\* records; when the best priority is 0 or 1 the split records are left as
\* they are.
C13_SplitBeforeNormal ==
    [][SelectStep =>
          IF BestPriority \in {0, 1} THEN splits' = splits
          ELSE splits # <<>> =>
                  /\ batched_prs' = splits[1]
                  /\ splits' = Tail(splits)]_vars

\* C13 happens: with two split records pending and ready groups of priority
\* 2 only, the batches of the first record were offered, which are not the
\* ready groups, and the second record is left
C13_Witness ==
    /\ last.op = "staging_setup"
    /\ BestPriority = 2
    /\ batched_prs = SplitHead
    /\ splits = <<SplitTail>>
    /\ ~OffersExactly(batched_prs, GroupsAt(2))

\* the scenario of the two companions: PRs 2 and 3, which share the label
\* dev:fix-1234 and sit in repositories B and A, are the ready PRs, both
\* flagged single-commit and without merge method, and the remote has
\* agreed with the store and failed nothing so far
Companions ==
    /\ PrLabel(2) = Label.fix /\ PrLabel(3) = Label.fix
    /\ PrRepository(2) # PrRepository(3)
    /\ \A p \in {1, 4} : prs[p].state = "opened"
    /\ \A p \in {2, 3} : prs[p].merge_method = None /\ prs[p].squash
    /\ faults = 0

\* C14: in the scenario of the two companions, each call of stage returns
\* by rebase-ff and moves the temporary ref of the PR's repository from the
\* original head to one new commit on top of it, leaving the other
\* repository alone; try_staging does not fail before the publication; and
\* the Staging it creates references exactly one Batch, of PRs 2 and 3,
\* with in each repository the temporary ref on the recorded head, which
\* is one commit whose only parent is the original head.
C14_CompanionsStagedTogether ==
    /\ [][(StageStep /\ Companions /\ faults' = 0) =>
             /\ last'.kind = "staged"
             /\ last'.method = "rebase-ff"
             /\ refs[CurRepo].tmp = original_heads[CurRepo]
             /\ Len(objects') = Len(objects) + 1
             /\ refs'[CurRepo].tmp = Len(objects')
             /\ objects'[Len(objects')].parents = <<original_heads[CurRepo]>>
             /\ \A r \in Repos \ {CurRepo} : refs'[r].tmp = refs[r].tmp]_vars
    /\ [](Companions =>
             /\ last # [op |-> "stage_into", result |-> "nothing"]
             /\ pc = "raised" => last.op = "wait_for_visibility"
             /\ stagings # <<>> =>
                   /\ Len(stagings) = 1
                   /\ stagings[1].batch_ids = <<[target |-> Branch, prs |-> <<2, 3>>]>>
                   /\ \A r \in Repos :
                         /\ refs[r].tmp = stagings[1].heads[r]
                         /\ refs[r].tmp # original_heads[r]
                         /\ objects[refs[r].tmp].parents = <<original_heads[r]>>
                         /\ objects[original_heads[r]].parents = <<>>)

\* C14 happens: the Staging of the two companions was created and published
\* in both repositories, and both PRs map their commit to the head of their
\* repository
C14_Witness ==
    /\ Companions
    /\ Len(stagings) = 1
    /\ pc = "idle"
    /\ last.op = "wait_for_visibility"
    /\ \A p \in {2, 3} :
          /\ prs[p].commits_map[EmptyKey] = stagings[1].heads[PrRepository(p)]
          /\ prs[p].commits_map[CachedHead(p)] = stagings[1].heads[PrRepository(p)]
          /\ refs[PrRepository(p)].staging = stagings[1].heads[PrRepository(p)]

\* C15: whenever stage returns for a PR, by whichever of the four
\* strategies, the commits-map stored on the PR has an entry for the empty
\* key, its value is the head stage returned, and the temporary ref of the
\* PR's repository points at that commit, which exists on the remote.
C15_EmptyKeyIsTheHead ==
    [][(StageStep /\ last'.kind = "staged") =>
          /\ last'.method \in Methods
          /\ EmptyKey \in DOMAIN prs'[CurPr].commits_map
          /\ prs'[CurPr].commits_map[EmptyKey] = last'.head
          /\ refs'[CurRepo].tmp = last'.head
          /\ last'.head \in DOMAIN objects'
          /\ last'.head \notin DOMAIN objects]_vars

\* C15 happens: a PR whose head merged the base branch was staged by merge;
\* the empty key and the head of the PR map to the replica of the head, on
\* which the temporary ref is, and the other commit maps to itself
C15_Witness ==
    /\ last.op = "stage"
    /\ last.kind = "staged"
    /\ last.method = "merge"
    /\ last.live.parents = "merged_base"
    /\ prs[last.pr].commits_map[EmptyKey] = last.head
    /\ prs[last.pr].commits_map[prs[last.pr].head] = last.head
    /\ prs[last.pr].commits_map[PrCommit(last.pr, 1)] = PrCommit(last.pr, 1)
    /\ refs[prs[last.pr].repository].tmp = last.head

\* a Message was built from the text
Built == msg.op # "text" /\ ~msg.message.raises

\* the lines of the text and of the body of the Message
TextLines == splitlines(msg.text)
BodyLines == splitlines(msg.message.body)

\* how many times a line occurs in lines
Count(lines, line) == Cardinality({i \in 1..Len(lines) : lines[i] = line})

\* C16, as stated: when a Message is built from a PR's full message, the
\* two-line message "Title\n---" keeps both lines in the body, and in the
\* three-line message "Para\n\n---" the line of dashes is a break and what
\* is above it is not in the body.
C16_AsStated ==
    (Built /\ msg.handle_break) =>
        /\ msg.text = Join(<<Line.text, Line.dash>>) => msg.message.body = msg.text
        /\ msg.text = Join(<<Line.text, Line.blank, Line.dash>>) =>
              /\ Count(BodyLines, Line.dash) = 0
              /\ Count(BodyLines, Line.text) = 0

\* from_message has just worked on a raw string
Raw == msg.op \in {"message", "raised"} /\ ~msg.handle_break /\ ~msg.extended

\* no line of the text has the form of a trailer
NoTrailerLine == \A i \in 1..Len(TextLines) : ~HEADER(TextLines[i]).match

\* lines without the blank lines that have a blank line, or nothing, below
\* them
RECURSIVE Squeeze(_)
Squeeze(lines) ==
    IF lines = <<>> THEN <<>>
    ELSE IF Head(lines) = Line.blank /\ (Len(lines) = 1 \/ lines[2] = Line.blank)
         THEN Squeeze(Tail(lines))
         ELSE <<Head(lines)>> \o Squeeze(Tail(lines))

\* the title, one blank line, and the lines below the title with their runs
\* of blank lines reduced to one blank line
Separated(lines) ==
    LET below == Squeeze(Tail(lines))
    IN <<Head(lines)>>
       \o (IF below # <<>> /\ Head(below) # Line.blank THEN <<Line.blank>> ELSE <<>>)
       \o below

\* C17, as amended: for every message string with at least one line and no
\* trailer line, from_message yields an empty trailer map and a body equal
\* to the message trimmed after it was given exactly one blank line between
\* the title and the lines below it and every run of blank lines was
\* reduced to one blank line; for the empty message from_message raises
\* and yields no Message.
C17_NoTrailersBodyNormalised ==
    (Raw /\ NoTrailerLine) =>
        IF TextLines = <<>>
        THEN msg.message.raises
        ELSE /\ ~msg.message.raises
             /\ msg.message.headers = <<>>
             /\ msg.message.body = strip(Join(Separated(TextLines)))

\* C17 happens: a string of a title, two blank lines and a line of text was
\* parsed into a Message without trailers whose body has one blank line
C17_Witness ==
    /\ msg.op = "message"
    /\ ~msg.handle_break
    /\ msg.text = Join(<<Line.text, Line.blank, Line.blank, Line.text>>)
    /\ msg.message.headers = <<>>
    /\ msg.message.body = Join(<<Line.text, Line.blank, Line.text>>)

\* C17, as stated: for every message string containing no trailer line,
\* from_message yields an empty trailer map and a body equal to the full
\* message trimmed, the empty message included.
C17_AsStated ==
    (Raw /\ NoTrailerLine) =>
        /\ ~msg.message.raises
        /\ msg.message.headers = <<>>
        /\ msg.message.body = strip(msg.text)

\* the keys of the trailers, in lower case
KeysOf(headers) == {lower(headers[i][1]) : i \in 1..Len(headers)}

\* the same trailer multimap: the same keys up to case and, for each key,
\* the same values in the same order
SameTrailers(one, other) ==
    /\ KeysOf(one) = KeysOf(other)
    /\ \A key \in KeysOf(one) : getlist(one, key) = getlist(other, key)

\* C18, as stated: for every Message m obtained by parsing a raw string or
\* the message of a PR, parsing str(m) as a raw string yields the same body
\* as m and the same trailer multimap as m.
C18_RoundTrip ==
    (msg.op = "reparsed" /\ ~msg.extended) =>
        /\ ~msg.again.raises
        /\ msg.again.body = msg.message.body
        /\ SameTrailers(msg.again.headers, msg.message.headers)

\* a Message with trailers has just been serialized
Serialized == msg.op = "serialized" /\ msg.message.headers # <<>>

\* what the serialized Message has after its body and an empty line
TrailerLines ==
    splitlines(SubSeq(msg.out, Len(msg.message.body) + 3, Len(msg.out)))

\* each of the lines with what HEADER finds in it
Matched(lines) == [i \in 1..Len(lines) |-> [line |-> lines[i]] @@ HEADER(lines[i])]

\* the values written under a key, from the top
WrittenUnder(written, key) ==
    LET under == SelectSeq(written, LAMBDA w : w.key = key)
    IN [i \in 1..Len(under) |-> under[i].value]

\* the values the Message has for the keys which are the key but for case,
\* in the order they were put in
ValuesOf(key) ==
    LET hits == SelectSeq(msg.message.headers, LAMBDA h : lower(h[1]) = lower(key))
    IN [i \in 1..Len(hits) |-> hits[i][2]]

\* where the Message first has a key which is the key but for case
FirstMet(key) ==
    CHOOSE i \in 1..Len(msg.message.headers) :
        /\ lower(msg.message.headers[i][1]) = lower(key)
        /\ \A j \in 1..(i - 1) : lower(msg.message.headers[j][1]) # lower(key)

\* the first letter of a key is an upper case letter or a hyphen, the
\* others are lower case letters or hyphens
Capitalized(key) ==
    /\ key # <<>>
    /\ key[1] \notin Range(LowerCase)
    /\ \A i \in 2..Len(key) : key[i] \notin Range(UpperCase)

\* C19: in every serialized Message with trailers, the text starts with the
\* body and an empty line, and each trailer value is on its own
\* "Key: value" line with the key capitalized; the values of one key are
\* on consecutive lines in the order they were put in; the groups of the
\* keys other than Co-authored-by are in the order the keys were first met;
\* and every Co-authored-by line is below every other trailer line,
\* wherever and in whichever case the co-authorship was added.
C19_TrailersGroupedCoAuthorsLast ==
    Serialized =>
        \A written \in {Matched(TrailerLines)} :
            /\ SubSeq(msg.out, 1, Len(msg.message.body) + 2) = msg.message.body \o <<LF, LF>>
            /\ Len(written) = Len(msg.message.headers)
            /\ \A i \in 1..Len(written) :
                  /\ written[i].match
                  /\ Capitalized(written[i].key)
                  /\ written[i].line = written[i].key \o <<":", " ">> \o written[i].value
                  /\ WrittenUnder(written, written[i].key) = ValuesOf(written[i].key)
            /\ \A i, j \in 1..Len(written) :
                  i < j =>
                     /\ written[i].key = written[j].key =>
                           \A k \in i..j : written[k].key = written[i].key
                     /\ written[i].key = Co_authored_by =>
                           written[j].key = Co_authored_by
                     /\ (/\ written[i].key # written[j].key
                         /\ written[j].key # Co_authored_by) =>
                           FirstMet(written[i].key) < FirstMet(written[j].key)

\* C19 happens: a Message which met a co-author before two other keys, and
\* got two more co-authors under the key "Co-Authored-By", is serialized
\* with the other keys first and the three co-authors last
C19_Witness ==
    /\ msg.op = "serialized"
    /\ msg.extended
    /\ msg.text = Join(<<Line.text, Line.co_author, Line.to, Line.cc>>)
    /\ msg.message.headers =
          << <<SubSeq(Line.co_author, 1, 14), <<"x">>>>, <<SubSeq(Line.to, 1, 2), <<"c">>>>,
             <<SubSeq(Line.cc, 1, 2), <<"a">>>> >> \o CoAuthors
    /\ TrailerLines =
          << Line.to, Line.cc, Co_authored_by \o <<":", " ", "x">>,
             Co_authored_by \o <<":", " ", "a", " ", "<", "a", ">">>,
             Co_authored_by \o <<":", " ", "b", " ", "<", "b", ">">> >>

RECURSIVE Chosen(_, _, _)
\* the lines at the places of the set, from the i-th place on, in order
Chosen(lines, places, i) ==
    IF i > Len(lines) THEN <<>>
    ELSE (IF i \in places THEN <<lines[i]>> ELSE <<>>) \o Chosen(lines, places, i + 1)

\* the places of the lines of the form "Key: value"
KeyValuePlaces(matched) == {i \in 1..Len(matched) : matched[i].match}

\* the places below the title of the "Key: value" lines which have only
\* "Key: value" lines and empty lines below them, or whose key is
\* Co-authored-by in any case
TrailerPlaces(matched) ==
    {i \in KeyValuePlaces(matched) \ {1} :
        \/ \A j \in (i + 1)..Len(matched) :
              matched[j].match \/ matched[j].line = Line.blank
        \/ lower(matched[i].key) = co_authored_by}

\* C20: from_message on a raw string parses a "Key: value" line below the
\* title as a trailer if and only if every line below it is a "Key: value"
\* line or an empty line, or its key is Co-authored-by in any case: the
\* trailers are those lines, in their order, and every other "Key: value"
\* line, the title among them, is a line of the body.
C20_TrailerIffInTrailerBlock ==
    (Raw /\ Built) =>
        \A matched \in {Matched(TextLines)} :
        \A trailers \in {Chosen(matched, TrailerPlaces(matched), 1)} :
        \A others \in {Chosen(matched, KeyValuePlaces(matched) \ TrailerPlaces(matched), 1)} :
            /\ msg.message.headers
                  = [i \in 1..Len(trailers) |-> <<trailers[i].key, trailers[i].value>>]
            /\ SelectSeq(BodyLines, LAMBDA line : HEADER(line).match)
                  = [i \in 1..Len(others) |-> others[i].line]

\* C20 happens: of a raw string with the lines "Cc: a", "To: c", "fix" and
\* "cc: b", the last line is a trailer and the first two are in the body
C20_Witness ==
    /\ msg.op = "message"
    /\ ~msg.handle_break
    /\ ~msg.extended
    /\ msg.text = Join(<<Line.cc, Line.to, Line.text, Line.lower_cc>>)
    /\ msg.message.headers = << <<SubSeq(Line.lower_cc, 1, 2), <<"b">>>> >>
    /\ msg.message.body = Join(<<Line.cc, Line.blank, Line.to, Line.text>>)

\* a step of stage_batch: stage is called on a PR
StageCall == pc = "batches" /\ last'.op = "stage"

\* the Batch records are of batches already gone through, in their order
StagedInOrder ==
    \E at \in [1..Len(staged) -> 1..Len(batched_prs)] :
        /\ \A i \in 1..Len(staged) : at[i] < bi /\ batched_prs[at[i]] = staged[i].prs
        /\ \A i, j \in 1..Len(staged) : i < j => at[i] < at[j]

\* C21: stage_batches never has more staged batches than the batch limit.
\* stage is called only while fewer batches than the limit are staged, on a
\* PR of the batch whose turn it is, and the batches take their turn in
\* input order; a batch counts when its last PR is staged, and a batch which
\* failed or ended in Mismatch does not; once the limit is reached no PR is
\* staged or written, no temporary ref is set and no feedback is sent.
C21_BatchLimit ==
    /\ [](Len(staged) <= batch_limit /\ (pc = "batches" => StagedInOrder))
    /\ [][/\ StageCall =>
               /\ Len(staged) < batch_limit
               /\ bi <= Len(batched_prs)
               /\ last'.pr = batched_prs[bi][pi]
               /\ bi' = IF (last'.kind = "staged" /\ pi < Len(batched_prs[bi])) \/ last'.raised
                        THEN bi ELSE bi + 1
               /\ staged' = IF last'.kind = "staged" /\ pi = Len(batched_prs[bi])
                            THEN Append(staged, [target |-> Branch, prs |-> batched_prs[bi]])
                            ELSE staged
          /\ (pc = "batches" /\ Len(staged) >= batch_limit) =>
               /\ last'.op # "stage"
               /\ prs' = prs
               /\ TmpRefs(refs') = TmpRefs(refs)
               /\ notifications' = notifications
               /\ staged' = staged]_vars

\* C21 happens: of three batches and a limit of one, the first did not
\* count, the second was staged, and the Staging was created without the
\* third being attempted
C21_Witness ==
    /\ pc = "publish"
    /\ Len(batched_prs) = 3
    /\ batch_limit = 1
    /\ Len(staged) = 1
    /\ staged[1].prs = batched_prs[2]
    /\ bi = 3
    /\ prs[batched_prs[3][1]].state = "ready"
    /\ prs[batched_prs[3][1]].commits_map = <<>>

\* the step which ends a call of stage_batch: stage raised, or it staged
\* the last PR of the batch
BatchEnds == StageCall /\ (last'.kind # "staged" \/ pi = Len(batched_prs[bi]))

\* the repositories of the PRs of the current batch
Touched == {PrRepository(batched_prs[bi][i]) : i \in 1..Len(batched_prs[bi])}

\* C22: when a call of stage_batch ends, with the batch staged, with a
\* Mismatch or with an error, the temporary ref of every repository is the
\* head the staging state has for it; the heads of the staging state
\* change only in the step which stages the last PR of a batch whose other
\* PRs were all staged, and then the head of every repository of a PR of
\* the batch changes, in that one step, and no other head does.
C22_RefsMatchStagingState ==
    /\ []((pc = "batches" /\ pi = 1) => TmpRefs(refs) = staging_state)
    /\ [][StageCall =>
            /\ BatchEnds => TmpRefs(refs') = staging_state'
            /\ staging_state' # staging_state =>
                  /\ last'.kind = "staged"
                  /\ pi = Len(batched_prs[bi])
                  /\ Len(new_heads) = pi - 1
                  /\ \A r \in Repos : (staging_state'[r] # staging_state[r]) <=> r \in Touched
            /\ (last'.kind = "staged" /\ pi = Len(batched_prs[bi])) =>
                  staging_state' # staging_state]_vars

\* C22 happens: a batch of two PRs in two repositories was staged, and both
\* heads of the staging state moved to what the temporary refs are
C22_Witness ==
    /\ pc = "batches"
    /\ last.op = "stage"
    /\ last.kind = "staged"
    /\ last.index = 2
    /\ \A r \in Repos : staging_state[r] # original_heads[r]
    /\ TmpRefs(refs) = staging_state

\* the staging refs of all repositories
StagingRefs(rf) == [r \in Repos |-> rf[r].staging]

\* the Staging record created last
LastStaging == stagings[Len(stagings)]

\* the step sets a staging ref
SetsRef == last'.op = "set_ref" /\ pc = "publish"

\* the step is a call of wait_for_visibility which ends the backoff with an
\* exception
ConfirmationFails ==
    /\ pc = "visibility"
    /\ last'.op = "wait_for_visibility"
    /\ last'.result \in {"timeout", "protocol error"}

\* C23: stage_into creates the Staging record before it sets any staging
\* ref; it then takes the repositories one at a time, sets the staging ref
\* of the repository to the head the staging state has for it, which is the
\* head the Staging records, and goes to the next repository only after
\* wait_for_visibility found that head visible; when the confirmation of a
\* repository fails the exception leaves stage_into, the Staging record
\* stays as created, and the staging refs of the repositories after it are
\* as they were before the publication.
C23_PublishOrder ==
    [][/\ StagingRefs(refs') # StagingRefs(refs) => SetsRef
       /\ last'.op = "stage_into" =>
            /\ refs' = refs
            /\ last'.result = "created" =>
                  /\ Len(stagings') = Len(stagings) + 1
                  /\ ri' = 1
                  /\ stagings'[Len(stagings')].heads = staging_state'
       /\ SetsRef =>
            /\ stagings # <<>> /\ stagings' = stagings
            /\ \/ ri = 1 /\ last.op = "stage_into" /\ last.result = "created"
               \/ /\ ri > 1
                  /\ last.op = "wait_for_visibility"
                  /\ last.result = "visible"
                  /\ last.repo = RepoSeq[ri - 1]
            /\ refs'[RepoSeq[ri]].staging = LastStaging.heads[RepoSeq[ri]]
            /\ LastStaging.heads = staging_state
            /\ \A r \in Repos \ {RepoSeq[ri]} : refs'[r] = refs[r]
            /\ \A j \in 1..(ri - 1) :
                  refs[RepoSeq[j]].staging = LastStaging.heads[RepoSeq[j]]
            /\ \A j \in (ri + 1)..Len(RepoSeq) : refs'[RepoSeq[j]].staging = NoCommit
       /\ (pc \in {"publish", "visibility"} /\ ri' # ri) =>
            /\ last'.op = "wait_for_visibility"
            /\ last'.result = "visible"
            /\ last'.repo = RepoSeq[ri]
            /\ ri' = ri + 1
            /\ refs[RepoSeq[ri]].staging = LastStaging.heads[RepoSeq[ri]]
       /\ ConfirmationFails =>
            /\ pc' = "raised"
            /\ stagings' = stagings /\ stagings # <<>>
            /\ refs' = refs
            /\ \A j \in (ri + 1)..Len(RepoSeq) : refs[RepoSeq[j]].staging = NoCommit]_vars

\* C23 happens: the head of the first repository never became visible:
\* the Staging exists, the staging ref of the first repository is set and
\* the one of the second repository was never set
C23_Witness ==
    /\ pc = "raised"
    /\ last.op = "wait_for_visibility"
    /\ last.result = "timeout"
    /\ ri = 1
    /\ stagings # <<>>
    /\ refs[RepoSeq[1]].staging = LastStaging.heads[RepoSeq[1]]
    /\ refs[RepoSeq[2]].staging = NoCommit

\* what staging by a method does to the objects, the temporary ref and
\* the commits-map
ByMethod(method, pr, live, objs, tmp) ==
    CASE method = "merge" -> stage_merge(pr, live, objs, tmp)
      [] method = "rebase-merge" -> stage_rebase_merge(pr, live, objs, tmp)
      [] method = "rebase-ff" -> stage_rebase_ff(pr, live, objs, tmp)
      [] method = "squash" -> stage_squash(pr, live, objs, tmp)

\* C24: a PR which stage stages is staged by its configured method when it
\* has one, and by rebase-ff when it has none and the remote reports
\* exactly one commit: the method returned is that method, and the objects,
\* the temporary ref and the commits-map are what that method makes.  A PR
\* with no configured method for which the remote reports more than one
\* commit, be it 2 or more than 50, is not staged: stage raises, the
\* temporary ref of the repository is what it was before the call, and the
\* commits-map of the PR is not written.
C24_StrategySelection ==
    [][StageCall =>
          \E p \in {last'.pr} : \E live \in {last'.live} : \E repo \in {prs[p].repository} :
             /\ last'.kind = "staged" =>
                   /\ last'.method \in Methods
                   /\ prs[p].merge_method # None => last'.method = prs[p].merge_method
                   /\ prs[p].merge_method = None =>
                         last'.method = "rebase-ff" /\ live.commits = 1
                   /\ \E out \in {ByMethod(last'.method, prs[p], live, objects,
                                           refs[repo].tmp)} :
                         /\ out.kind = "staged"
                         /\ objects' = out.objs
                         /\ refs'[repo].tmp = out.tmp
                         /\ prs'[p].commits_map = out.commits_map
             /\ (prs[p].merge_method = None /\ live.commits > 1) =>
                   /\ last'.kind # "staged"
                   /\ refs'[repo].tmp = refs[repo].tmp
                   /\ prs'[p].commits_map = prs[p].commits_map]_vars

\* C24 happens: stage raised on a PR with no configured method for which
\* the remote reports more than 50 commits
C24_Witness ==
    /\ last.op = "stage"
    /\ prs[last.pr].merge_method = None
    /\ last.live.commits = RebaseLimit + 1
    /\ last.kind = "crash"
    /\ prs[last.pr].commits_map = <<>>
    /\ refs[prs[last.pr].repository].tmp = refs[prs[last.pr].repository].branch

\* C25: when stage raises on a PR of a batch after other PRs of the batch
\* were staged, the batch is rolled back and none of the PRs staged before
\* keeps a commits-map whose entry for the staged head is the head which the
\* rolled-back attempt made for it.
C25_AsStated ==
    [][(StageCall /\ last'.kind # "staged") =>
          \A i \in 1..Len(new_heads) :
             \E sibling \in {prs'[new_heads[i][1]]} :
                /\ refs'[sibling.repository].tmp = staging_state[sibling.repository]
                /\ ~ /\ EmptyKey \in DOMAIN sibling.commits_map
                     /\ sibling.commits_map[EmptyKey] = new_heads[i][2]]_vars

====
